---- MODULE Spec2Model ----
(***************************************************************************)
(* Batch orchestration and retry subsystem of the ClickUp -> Monday sync:  *)
(* BatchProcessor (lib/sync/batch-processor), ExponentialBackoff and       *)
(* RateLimiter (lib/utils/rate-limiter), and the per-task migration of     *)
(* ListReplicator that runs on top of them.                                *)
(***************************************************************************)
EXTENDS Integers, Sequences, FiniteSets, TLC

\* ------------------------------------------------------------------ bounds
MaxTasks == 3          \* longest task list handed to processBatch
MaxBatchSize == 3      \* largest batch size tried (0 = one batch)
MaxRetriesBound == 1   \* largest maxRetries option tried
MaxParallelBound == 2  \* largest maxParallel option tried
MaxParResults == 3     \* cap on the result list of one processParallel pass
MaxAttemptsBound == 3  \* largest maxAttempts an ExponentialBackoff is built with
MaxTime == 1800        \* the clock stops advancing here (ms)
MaxRecords == 3        \* most requests one caller issues through a RateLimiter
MaxJobRequests == 2    \* most requests one of two concurrent jobs issues
MaxCalls == 3          \* most calls made on one adapter

VARIABLES
  \* processBatch: arguments and options
  tasks, batchSize, maxRetries, parallel, maxParallel,
  \* processBatch: locals
  pc, batches, index, results, successful, failed, skipped,
  \* processSequential / processParallel: locals
  batchResults, cur, retryCount, lastError, queue, inProgress, raceWinner,
  \* promises of an abandoned parallel batch that keep running unawaited
  detached,
  \* job store: sync_jobs row of the job, its error_log, file_transfers rows
  jobRow, errorLog, fileTransfers,
  \* history: number of processor invocations per task id, and the batches
  \* (0-based index) whose handling raised an exception into processBatch
  invoked, aborted,
  \* ExponentialBackoff: configuration, attempt counter, position of execute
  maxAttempts, retryableErrors, attempt, xpc,
  \* outcome of execute: the value returned or the error thrown
  returned, thrown,
  \* history of the running execute: calls of fn, errors it threw, delays slept
  fnCalls, fnErrors, slept,
  \* the clock (Date.now())
  now,
  \* RateLimiter: config, requests[], lastRequestTime
  config, requests, lastRequestTime,
  \* the caller of the RateLimiter: its position, the `now` waitForReset read,
  \* the time its pending sleep ends
  rpc, wnow, wakeAt,
  \* the last answer of checkLimit or getRemainingQuota
  probe,
  \* history: time of every recordRequest; start time of every remote call
  \* of the caller that drives the RateLimiter on its own
  recorded, starts,
  \* migrateTask: position of the running call and the error it rejected with
  proc, procError,
  \* target service: the items created; job store: the task_mappings rows
  mondayItems, taskMappings,
  \* history per task: number of rejections of createItem, number of failed
  \* remote requests of createItem (counted up to maxRetries + 1), whether any
  \* other step of migrateTask rejected
  hist,
  \* concurrent jobs on one service: per job the position of its adapter and
  \* the adapter's RateLimiter; history: time of every request recorded
  jobs, serviceLog,
  \* one MondayAPI adapter called directly: its position; history: number of
  \* waitForReset calls, of remote call attempts, of recordRequest calls, and
  \* of calls made on the adapter
  apc, traffic,
  \* replicate: the list_replications row of the job, the running replicate
  \* call (position, mode, custom fields read, loop index, mappings built),
  \* the source list, the board created on the target service
  replication, replicator, source, board,
  \* history: every status written to the row, the kinds of remote call
  \* issued, the fields whose column creation was attempted, whether a
  \* setup step (list analysis, board creation) rejected, whether a column
  \* creation rejected
  repLog,
  \* file sync of one task: the names of the items on the target board, the
  \* task (name, attachments), the running syncTaskFiles call (position,
  \* item picked, attachment index), the file_transfers rows of the job
  boardItems, syncTask, fileSync, transferRecords,
  \* the last answer of findMatchingItems; history: how the handling of each
  \* attachment ended
  matched, outcomes,
  \* file sync of a list: the tasks with attachments, the running syncFiles
  \* call (position, loop index), the sync_jobs row, the result being built
  syncList, sync, syncJob, syncResult,
  \* a pure function called on its own: its arguments and what it returned
  pureArgs, pureResult,
  \* the assets the target service holds on the item the file sync picked
  itemAssets,
  \* migration of a list with subtasks: the tasks of the source list (id,
  \* parent), the running migrateTask call, the items and sub-items created
  \* on the target in order of creation, the task_mappings rows
  listTasks, subtaskRun, creations, mappingRows,
  \* the callers that share one RateLimiter: for each its position in
  \* makeRequest, the `now` its waitForReset read and the end of its sleep
  callers,
  \* complexity budget of the MondayAPI adapter: its two fields (the reset
  \* time kept in ms), the service's account of the budget (cost spent in the
  \* running minute, end of that minute); history: every request issued,
  \* with the service's account at that time
  complexityUsed, complexityResetTime, service, issues,
  \* execute calls in flight on one ExponentialBackoff: for each its position;
  \* history: how often it invoked its operation and how often that failed
  execs,
  \* replicate from the fetch of the tasks on: its position and the batch loop;
  \* the store writes of onProgress still in flight; the list_replications row
  progressRun, progressWrites, replicationRow

bvars == <<tasks, batchSize, maxRetries, parallel, maxParallel,
           pc, batches, index, results, successful, failed, skipped,
           batchResults, cur, retryCount, lastError, queue, inProgress,
           raceWinner, detached, jobRow, errorLog, fileTransfers, invoked,
           aborted>>

\* the state of the other components, left alone by the batch processor
xvars == <<maxAttempts, retryableErrors, attempt, xpc, returned, thrown,
           fnCalls, fnErrors, slept>>

rvars == <<now, config, requests, lastRequestTime, rpc, wnow, wakeAt,
           probe, recorded, starts>>

mvars == <<proc, procError, mondayItems, taskMappings, hist>>

jvars == <<jobs, serviceLog>>

avars == <<apc, traffic>>

pvars == <<replication, replicator, source, board, repLog>>

\* the components added on top of the adapters
fvars == <<boardItems, syncTask, fileSync, transferRecords, matched, outcomes>>

svars == <<syncList, sync, syncJob, syncResult>>

uvars == <<pureArgs, pureResult>>

gvars == <<itemAssets>>

hvars == <<listTasks, subtaskRun, creations, mappingRows>>

kvars == <<callers>>

cvars == <<complexityUsed, complexityResetTime, service, issues>>

evars == <<execs>>

wvars == <<progressRun, progressWrites, replicationRow>>

ovars == <<pvars, fvars, svars, uvars, gvars, hvars, kvars, cvars, evars, wvars>>

\* the components that take no part in a task migration
outside == <<jvars, avars, ovars>>

nonJobs == <<bvars, xvars, rvars, mvars, avars, ovars>>

nonBatch == <<xvars, rvars, mvars, outside>>
nonBackoff == <<bvars, rvars, mvars, outside>>
nonRate == <<bvars, xvars, mvars, outside>>

vars == <<bvars, xvars, rvars, mvars, outside>>

\* ------------------------------------------------------------- helpers
Min(a, b) == IF a < b THEN a ELSE b
Max(a, b) == IF a > b THEN a ELSE b

RECURSIVE Concat(_)
Concat(ss) == IF ss = <<>> THEN <<>> ELSE Head(ss) \o Concat(Tail(ss))

RECURSIVE SumLen(_)
SumLen(ss) == IF ss = <<>> THEN 0 ELSE Len(Head(ss)) + SumLen(Tail(ss))

Range(s) == {s[i] : i \in 1..Len(s)}

\* Array.prototype.slice(from, to): 0-based, end exclusive, clamped to length
slice(items, from, to) == SubSeq(items, from + 1, Min(to, Len(items)))

\* String.prototype.includes, a string being a sequence of tokens: `sub`
\* occurs in `s` as a contiguous run
includes(s, sub) ==
  \E i \in 0..(Len(s) - Len(sub)) : SubSeq(s, i + 1, i + Len(sub)) = sub

\* ------------------------------------------------- BatchProcessor (pure)
RECURSIVE batchesFromBad(_, _, _)
batchesFromBad(items, size, i) ==
  IF i + size < Len(items)
    THEN <<slice(items, i, i + size)>> \o batchesFromBad(items, size, i + size)
    ELSE <<>>

RECURSIVE batchesFrom(_, _, _)
batchesFrom(items, size, i) ==
  IF i < Len(items)
    THEN <<slice(items, i, i + size)>> \o batchesFrom(items, size, i + size)
    ELSE <<>>

createBatches(items, size) ==
  IF size = 0 \/ size >= Len(items)
    THEN <<items>>
    ELSE batchesFrom(items, size, 0)

\* error messages a processor may throw; one of them contains 'skipped'
ErrorMessages == {<<"boom">>, <<"file", "skipped">>}
OnErrorThrew == <<"onError", "threw">>
OnProgressThrew == <<"onProgress", "threw">>
NoError == <<>>

\* a success result that always reports zero retries
SuccessResultZero(task, rc) ==
  [taskId |-> task, success |-> TRUE, error |-> NoError, retryCount |-> 0]

SuccessResult(task, rc) ==
  [taskId |-> task, success |-> TRUE, error |-> NoError, retryCount |-> rc]

FailureResult(task, rc, maxR, msg) ==
  [taskId |-> task, success |-> FALSE,
   error |-> <<"Failed", "after", ToString(maxR), "retries:">> \o msg, retryCount |-> rc]

\* results.push(result)
pushResultFront(rs, r) == <<r>> \o rs

pushResult(rs, r) == Append(rs, r)

\* the retry loop's condition after a failed attempt (retryCount <= maxRetries)
retryAllowed(rc, maxR) == rc <= maxR

\* counting loop of processBatch over one batch's results
countSuccessful(rs) == Cardinality({i \in 1..Len(rs) : rs[i].success})
countSkipped(rs) ==
  Cardinality({i \in 1..Len(rs) :
                 ~rs[i].success /\ includes(rs[i].error, <<"skipped">>)})
countFailed(rs) ==
  Cardinality({i \in 1..Len(rs) :
                 ~rs[i].success /\ ~includes(rs[i].error, <<"skipped">>)})

\* processed counter written after batch `idx` (0-based)
actualProcessed(idx, size, n) ==
  Min((idx + 1) * (IF size = 0 THEN n ELSE size), n)

\* BatchProcessor.updateProgress: the sync_jobs row it writes
progressRow(processed, total) ==
  [processed |-> processed, total |-> total,
   status |-> IF processed >= total THEN "completed" ELSE "running"]

\* BatchProcessor.logError: the error_log entry it appends
batchErrorEntry(idx, msg) ==
  [message |-> <<"Batch", ToString(idx), "processing", "failed">>,
   error |-> msg]

\* BatchProcessor.logTaskFailure: the file_transfers row it inserts
taskFailureRow(task, msg) ==
  [clickup_task_id |-> task, file_name |-> "N/A", status |-> "failed",
   error_message |-> msg]


\* ------------------------------------------------ BatchProcessor (state)
TaskIds == 1..MaxTasks

\* task lists: distinct ids, ascending or descending, of every length up to
\* MaxTasks
TaskLists ==
  UNION {{[i \in 1..n |-> i], [i \in 1..n |-> n + 1 - i]} : n \in 0..MaxTasks}

NoResult == [taskId |-> 0, success |-> FALSE, error |-> NoError, retryCount |-> 0]

CurrentBatch == batches[index + 1]

\* a promise returned by processTaskWithRetry, identified by its task
newPromise(task) ==
  [pid |-> task, task |-> task, retryCount |-> 0, st |-> "pending",
   result |-> NoResult]

\* Promise.resolve(result) of a plain TaskResult object is a new promise
\* object: its identity (0) is that of no promise in flight
promiseResolve(result) == 0

\* Array.prototype.findIndex(p => p === target): 0-based index or -1
findIndex(inProg, target) ==
  IF \E i \in 1..Len(inProg) : inProg[i].pid = target
    THEN (CHOOSE i \in 1..Len(inProg) :
            /\ inProg[i].pid = target
            /\ \A j \in 1..(i - 1) : inProg[j].pid # target) - 1
    ELSE -1

\* Array.prototype.splice(i, 1) with a 0-based index
splice1(s, i) == SubSeq(s, 1, i) \o SubSeq(s, i + 2, Len(s))

\* Promise.race over promises of which some are settled already: the
\* settled one that comes first in the array wins; 0 when all are pending
firstSettled(inProg) ==
  IF \E i \in 1..Len(inProg) : inProg[i].st # "pending"
    THEN CHOOSE i \in 1..Len(inProg) :
           /\ inProg[i].st # "pending"
           /\ \A j \in 1..(i - 1) : inProg[j].st = "pending"
    ELSE 0

bump(f, t) == [f EXCEPT ![t] = @ + 1]

\* the backoff wrapper at rest
BackoffIdle ==
  /\ maxAttempts = 3
  /\ retryableErrors = [given |-> FALSE, list |-> <<>>]
  /\ attempt = 0
  /\ xpc = "idle"
  /\ returned = "none"
  /\ thrown = [message |-> <<>>, code |-> <<>>]
  /\ fnCalls = 0
  /\ fnErrors = <<>>
  /\ slept = <<>>

\* a RateLimiter nobody has used yet
NoProbe ==
  [op |-> "none", ok |-> TRUE, remaining |-> 0, inWindow |-> 0, total |-> 0]

RateIdle ==
  /\ now = 0
  /\ config = [maxRequests |-> 1, windowMs |-> 0, minInterval |-> 0]
  /\ requests = <<>>
  /\ lastRequestTime = 0
  /\ rpc = "off"
  /\ wnow = 0
  /\ wakeAt = 0
  /\ probe = NoProbe
  /\ recorded = <<>>
  /\ starts = <<>>

NoHistory ==
  [createRejected |-> 0, requestFailed |-> 0, otherRejected |-> FALSE]

JobIds == {1, 2}

\* a job whose adapter has not been constructed
NoJob == [pc |-> "off", requests |-> <<>>, lastRequestTime |-> 0, wnow |-> 0,
          wakeAt |-> 0, sent |-> 0]

\* no job is running
JobsIdle ==
  /\ jobs = [j \in JobIds |-> NoJob]
  /\ serviceLog = <<>>

NoTraffic == [waits |-> 0, attempts |-> 0, records |-> 0, calls |-> 0]

\* no adapter is called directly
AdapterIdle ==
  /\ apc = "off"
  /\ traffic = NoTraffic

\* a list_replications row that has not been inserted
NoRow == [status |-> "none", total_tasks |-> 0, migrated_tasks |-> 0,
          error_message |-> "none", monday_board_id |-> 0]

NoReplicator == [pc |-> "off", mode |-> "none", customFields |-> 0,
                 fieldIndex |-> 0, mappings |-> <<>>]

NoBoard == [created |-> FALSE, columns |-> <<>>, items |-> 0]

NoRepLog == [statuses |-> <<>>, calls |-> {}, trace |-> <<>>,
             attempted |-> <<>>, setupError |-> FALSE, columnError |-> FALSE]

\* no replication is requested
ReplicateIdle ==
  /\ replication = NoRow
  /\ replicator = NoReplicator
  /\ source = [fields |-> 0, tasks |-> 0, children |-> 0]
  /\ board = NoBoard
  /\ repLog = NoRepLog

NoFileSync == [pc |-> "off", searched |-> FALSE, picked |-> 0, att |-> 0,
               skipDuplicates |-> FALSE]

\* no file sync is requested
FileSyncIdle ==
  /\ boardItems = <<>>
  /\ syncTask = [name |-> <<>>, attachments |-> <<>>]
  /\ fileSync = NoFileSync
  /\ transferRecords = <<>>
  /\ matched = 0
  /\ outcomes = <<>>

NoSyncJob == [total_tasks |-> 0, processed_tasks |-> 0, status |-> "pending"]

NoSyncResult == [success |-> TRUE, filesTransferred |-> 0, filesSkipped |-> 0,
                 errors |-> <<>>]

\* syncFiles is not running
SyncIdle ==
  /\ syncList = <<>>
  /\ sync = [pc |-> "off", index |-> 0, fetched |-> FALSE]
  /\ syncJob = NoSyncJob
  /\ syncResult = NoSyncResult

NoAnswer == [set |-> FALSE]

\* no pure function is under check
PureIdle ==
  /\ pureArgs = <<>>
  /\ pureResult = NoAnswer

\* the target item holds no asset
AssetsIdle == itemAssets = <<>>

NoSubtaskRun == [pc |-> "off", cur |-> 0, item |-> 0, kids |-> <<>>,
                 tries |-> 0, resolved |-> {}]

\* no list with subtasks is migrated
HierarchyIdle ==
  /\ listTasks = <<>>
  /\ subtaskRun = NoSubtaskRun
  /\ creations = <<>>
  /\ mappingRows = <<>>

\* no callers share a RateLimiter
SharedIdle == callers = <<>>

NoService == [spent |-> 0, resetAt |-> 0]

\* no request has been charged to the complexity budget
ComplexityIdle ==
  /\ complexityUsed = 0
  /\ complexityResetTime = 0
  /\ service = NoService
  /\ issues = <<>>

\* no execute calls overlap
OverlapIdle == execs = <<>>

\* no replication is migrating tasks
NoProgressRun == [pc |-> "idle", tasks |-> <<>>, batches |-> <<>>, index |-> 0]

NoReplicationRow == [migrated_tasks |-> 0, total_tasks |-> 0, status |-> "pending"]

ProgressIdle ==
  /\ progressRun = NoProgressRun
  /\ progressWrites = {}
  /\ replicationRow = NoReplicationRow

\* what is idle among the components added after the file sync of one task
AddedIdle ==
  /\ SyncIdle
  /\ PureIdle
  /\ AssetsIdle
  /\ HierarchyIdle
  /\ SharedIdle
  /\ ComplexityIdle
  /\ OverlapIdle
  /\ ProgressIdle

IdleButSync ==
  /\ PureIdle
  /\ AssetsIdle
  /\ HierarchyIdle
  /\ SharedIdle
  /\ ComplexityIdle
  /\ OverlapIdle
  /\ ProgressIdle

IdleButPure ==
  /\ SyncIdle
  /\ AssetsIdle
  /\ HierarchyIdle
  /\ SharedIdle
  /\ ComplexityIdle
  /\ OverlapIdle
  /\ ProgressIdle

IdleButAssets ==
  /\ SyncIdle
  /\ PureIdle
  /\ HierarchyIdle
  /\ SharedIdle
  /\ ComplexityIdle
  /\ OverlapIdle
  /\ ProgressIdle

IdleButHierarchy ==
  /\ SyncIdle
  /\ PureIdle
  /\ AssetsIdle
  /\ SharedIdle
  /\ ComplexityIdle
  /\ OverlapIdle
  /\ ProgressIdle

IdleButShared ==
  /\ SyncIdle
  /\ PureIdle
  /\ AssetsIdle
  /\ HierarchyIdle
  /\ ComplexityIdle
  /\ OverlapIdle
  /\ ProgressIdle

IdleButComplexity ==
  /\ SyncIdle
  /\ PureIdle
  /\ AssetsIdle
  /\ HierarchyIdle
  /\ SharedIdle
  /\ OverlapIdle
  /\ ProgressIdle

IdleButOverlap ==
  /\ SyncIdle
  /\ PureIdle
  /\ AssetsIdle
  /\ HierarchyIdle
  /\ SharedIdle
  /\ ComplexityIdle
  /\ ProgressIdle

IdleButProgress ==
  /\ SyncIdle
  /\ PureIdle
  /\ AssetsIdle
  /\ HierarchyIdle
  /\ SharedIdle
  /\ ComplexityIdle
  /\ OverlapIdle

OthersIdle ==
  /\ ReplicateIdle
  /\ FileSyncIdle
  /\ AddedIdle

\* no migration is running
MigrateIdle ==
  /\ proc = "off"
  /\ procError = NoError
  /\ mondayItems = <<>>
  /\ taskMappings = <<>>
  /\ hist = [t \in TaskIds |-> NoHistory]

InitBatchProcessor ==
  /\ tasks \in TaskLists
  /\ batchSize \in 0..MaxBatchSize
  /\ maxRetries \in 0..MaxRetriesBound
  /\ parallel \in BOOLEAN
  /\ maxParallel \in 1..MaxParallelBound
  /\ (~parallel => maxParallel = 1)
  /\ pc = "start"
  /\ batches = <<>>
  /\ index = 0
  /\ results = <<>>
  /\ successful = 0
  /\ failed = 0
  /\ skipped = 0
  /\ batchResults = <<>>
  /\ cur = 1
  /\ retryCount = 0
  /\ lastError = NoError
  /\ queue = <<>>
  /\ inProgress = <<>>
  /\ raceWinner = 0
  /\ detached = <<>>
  /\ jobRow = [processed |-> 0, total |-> 0, status |-> "pending"]
  /\ errorLog = <<>>
  /\ fileTransfers = <<>>
  /\ invoked = [t \in TaskIds |-> 0]
  /\ aborted = <<>>

\* processBatch, lines 55-69: partition the tasks
ProcessBatchStart ==
  /\ pc = "start"
  /\ batches' = createBatches(tasks, batchSize)
  /\ index' = 0
  /\ pc' = "loop"
  /\ UNCHANGED <<nonBatch, aborted>>
  /\ UNCHANGED <<tasks, batchSize, maxRetries, parallel, maxParallel, results,
                 successful, failed, skipped, batchResults, cur, retryCount,
                 lastError, queue, inProgress, raceWinner, detached, jobRow,
                 errorLog, fileTransfers, invoked>>

\* for-of head, lines 71-76: enter the next batch
EnterBatch ==
  /\ pc = "loop"
  /\ index < Len(batches)
  /\ batchResults' = <<>>
  /\ cur' = 1
  /\ queue' = IF parallel THEN CurrentBatch ELSE <<>>
  /\ inProgress' = <<>>
  /\ raceWinner' = 0
  /\ pc' = IF parallel THEN "par" ELSE "seq"
  /\ UNCHANGED <<nonBatch, aborted>>
  /\ UNCHANGED <<tasks, batchSize, maxRetries, parallel, maxParallel, batches,
                 index, results, successful, failed, skipped, retryCount,
                 lastError, detached, jobRow, errorLog, fileTransfers, invoked>>

\* lines 113-119: all batches done, return the aggregate
ReturnResult ==
  /\ pc = "loop"
  /\ index >= Len(batches)
  /\ pc' = "done"
  /\ UNCHANGED <<nonBatch, aborted>>
  /\ UNCHANGED <<tasks, batchSize, maxRetries, parallel, maxParallel, batches,
                 index, results, successful, failed, skipped, batchResults,
                 cur, retryCount, lastError, queue, inProgress, raceWinner,
                 detached, jobRow, errorLog, fileTransfers, invoked>>

\* a catch block that lets the error go instead of absorbing it
catchBatchRethrow(msg, failedSoFar) ==
  /\ errorLog' = errorLog
  /\ failed' = failedSoFar
  /\ index' = index
  /\ pc' = "thrown"

\* the catch block of processBatch, lines 106-110, for an error `msg`
catchBatch(msg, failedSoFar) ==
  /\ errorLog' = Append(errorLog, batchErrorEntry(index, msg))
  /\ failed' = failedSoFar + Len(CurrentBatch)
  /\ index' = index + 1
  /\ pc' = "loop"

\* processSequential, lines 133-138: next task of the batch, or return
SeqNextTask ==
  /\ pc = "seq"
  /\ cur <= Len(CurrentBatch)
  /\ retryCount' = 0
  /\ lastError' = NoError
  /\ pc' = "try"
  /\ UNCHANGED <<nonBatch, aborted>>
  /\ UNCHANGED <<tasks, batchSize, maxRetries, parallel, maxParallel, batches,
                 index, results, successful, failed, skipped, batchResults,
                 cur, queue, inProgress, raceWinner, detached, jobRow,
                 errorLog, fileTransfers, invoked>>

SeqReturn ==
  /\ pc = "seq"
  /\ cur > Len(CurrentBatch)
  /\ pc' = "count"
  /\ UNCHANGED <<nonBatch, aborted>>
  /\ UNCHANGED <<tasks, batchSize, maxRetries, parallel, maxParallel, batches,
                 index, results, successful, failed, skipped, batchResults,
                 cur, retryCount, lastError, queue, inProgress, raceWinner,
                 detached, jobRow, errorLog, fileTransfers, invoked>>

\* processTaskWithRetry, lines 194-201: the success result is returned
returnSuccess ==
  /\ batchResults' =
       pushResult(batchResults, SuccessResult(CurrentBatch[cur], retryCount))
  /\ cur' = cur + 1
  /\ pc' = "seq"
  /\ UNCHANGED <<tasks, batchSize, maxRetries, parallel, maxParallel, batches,
                 index, results, successful, failed, skipped, retryCount,
                 lastError, queue, inProgress, raceWinner, detached, jobRow,
                 errorLog, fileTransfers>>

\* lines 202-215: the rejection `msg` is caught, another attempt follows the
\* wait
catchRetry(msg) ==
  /\ retryAllowed(retryCount + 1, maxRetries)
  /\ lastError' = msg
  /\ retryCount' = retryCount + 1
  /\ UNCHANGED <<tasks, batchSize, maxRetries, parallel, maxParallel, pc,
                 batches, index, results, successful, failed, skipped,
                 batchResults, cur, queue, inProgress, raceWinner, detached,
                 jobRow, errorLog, fileTransfers>>

\* lines 202-228: the rejection `msg` is caught on the last attempt
catchExhausted(msg) ==
  /\ ~retryAllowed(retryCount + 1, maxRetries)
  /\ lastError' = msg
  /\ fileTransfers' =
       Append(fileTransfers, taskFailureRow(CurrentBatch[cur], msg))
  /\ batchResults' =
       pushResult(batchResults,
                  FailureResult(CurrentBatch[cur], retryCount + 1,
                                maxRetries, msg))
  /\ retryCount' = retryCount + 1
  /\ cur' = cur + 1
  /\ pc' = "seq"
  /\ UNCHANGED <<tasks, batchSize, maxRetries, parallel, maxParallel, batches,
                 index, results, successful, failed, skipped, queue,
                 inProgress, raceWinner, detached, jobRow, errorLog>>

\* processTaskWithRetry, lines 190-201: the processor resolves
TaskSucceeds ==
  /\ pc = "try"
  /\ retryCount <= maxRetries
  /\ invoked' = bump(invoked, CurrentBatch[cur])
  /\ returnSuccess
  /\ UNCHANGED <<nonBatch, aborted>>

\* lines 202-215: the processor rejects and another attempt follows the wait
TaskFailsRetry ==
  /\ pc = "try"
  /\ retryCount <= maxRetries
  /\ \E msg \in ErrorMessages : catchRetry(msg)
  /\ invoked' = bump(invoked, CurrentBatch[cur])
  /\ UNCHANGED <<nonBatch, aborted>>

\* lines 202-228: the processor rejects on the last attempt
TaskFailsExhausted ==
  /\ pc = "try"
  /\ retryCount <= maxRetries
  /\ \E msg \in ErrorMessages : catchExhausted(msg)
  /\ invoked' = bump(invoked, CurrentBatch[cur])
  /\ UNCHANGED <<nonBatch, aborted>>

\* lines 206-208 and 106-110: the onError callback throws inside the catch
\* block of the retry loop; the error leaves processTaskWithRetry and
\* processSequential and is caught by processBatch
TaskFailsOnErrorThrows ==
  /\ pc = "try"
  /\ retryCount <= maxRetries
  /\ \E msg \in ErrorMessages : lastError' = msg
  /\ invoked' = bump(invoked, CurrentBatch[cur])
  /\ retryCount' = retryCount + 1
  /\ catchBatch(OnErrorThrew, failed)
  /\ aborted' = Append(aborted, index)
  /\ UNCHANGED nonBatch
  /\ UNCHANGED <<tasks, batchSize, maxRetries, parallel, maxParallel, batches,
                 results, successful, skipped, batchResults, cur, queue,
                 inProgress, raceWinner, detached, jobRow, fileTransfers>>

\* lines 78-105: count the batch's results, append them, write the progress,
\* call onProgress, wait, go to the next batch
FinishBatch ==
  /\ pc = "count"
  /\ successful' = successful + countSuccessful(batchResults)
  /\ skipped' = skipped + countSkipped(batchResults)
  /\ failed' = failed + countFailed(batchResults)
  /\ results' = results \o batchResults
  /\ jobRow' = progressRow(actualProcessed(index, batchSize, Len(tasks)),
                           Len(tasks))
  /\ index' = index + 1
  /\ pc' = "loop"
  /\ UNCHANGED <<nonBatch, aborted>>
  /\ UNCHANGED <<tasks, batchSize, maxRetries, parallel, maxParallel, batches,
                 batchResults, cur, retryCount, lastError, queue, inProgress,
                 raceWinner, detached, errorLog, fileTransfers, invoked>>

\* lines 78-100 and 106-110: as FinishBatch, but onProgress throws
FinishBatchProgressThrows ==
  /\ pc = "count"
  /\ successful' = successful + countSuccessful(batchResults)
  /\ skipped' = skipped + countSkipped(batchResults)
  /\ results' = results \o batchResults
  /\ jobRow' = progressRow(actualProcessed(index, batchSize, Len(tasks)),
                           Len(tasks))
  /\ catchBatch(OnProgressThrew, failed + countFailed(batchResults))
  /\ aborted' = Append(aborted, index)
  /\ UNCHANGED nonBatch
  /\ UNCHANGED <<tasks, batchSize, maxRetries, parallel, maxParallel, batches,
                 batchResults, cur, retryCount, lastError, queue, inProgress,
                 raceWinner, detached, fileTransfers, invoked>>


options == <<tasks, batchSize, maxRetries, parallel, maxParallel>>

\* lines 157-161: tasks are shifted from the queue while it is not empty and
\* the pool holds fewer than maxParallel promises
fillCountAll(queueLen, poolLen, maxPar) == queueLen

fillCount(queueLen, poolLen, maxPar) ==
  Min(queueLen, Max(0, maxPar - poolLen))

\* processParallel, lines 155-164: fill the pool, then await Promise.race.
\* Starting processTaskWithRetry runs it up to its first await, so the
\* processor is invoked here for every task started.
ParFill ==
  /\ pc = "par"
  /\ queue # <<>> \/ inProgress # <<>>
  /\ LET k == fillCount(Len(queue), Len(inProgress), maxParallel)
         inProg == inProgress \o [i \in 1..k |-> newPromise(queue[i])]
     IN /\ queue' = SubSeq(queue, k + 1, Len(queue))
        /\ inProgress' = inProg
        /\ invoked' = [t \in TaskIds |->
                         invoked[t] + IF \E i \in 1..k : queue[i] = t
                                        THEN 1 ELSE 0]
        /\ raceWinner' = firstSettled(inProg)
  /\ pc' = "race"
  /\ UNCHANGED <<nonBatch, aborted>>
  /\ UNCHANGED <<options, batches, index, results, successful, failed,
                 skipped, batchResults, cur, retryCount, lastError, detached,
                 jobRow, errorLog, fileTransfers>>

\* line 174: queue and pool are empty, processParallel returns its results
ParReturn ==
  /\ pc = "par"
  /\ queue = <<>> /\ inProgress = <<>>
  /\ pc' = "count"
  /\ UNCHANGED <<nonBatch, aborted>>
  /\ UNCHANGED <<options, batches, index, results, successful, failed,
                 skipped, batchResults, cur, retryCount, lastError, queue,
                 inProgress, raceWinner, detached, jobRow, errorLog,
                 fileTransfers, invoked>>

\* the first promise to settle decides a pending race
settleRace(i) == IF raceWinner = 0 THEN i ELSE raceWinner

\* processTaskWithRetry of an in-flight task, lines 190-201
ParTaskSucceeds(i) ==
  /\ pc = "race"
  /\ inProgress[i].st = "pending"
  /\ inProgress' =
       [inProgress EXCEPT
          ![i].st = "fulfilled",
          ![i].result = SuccessResult(inProgress[i].task,
                                      inProgress[i].retryCount)]
  /\ raceWinner' = settleRace(i)
  /\ UNCHANGED <<nonBatch, aborted>>
  /\ UNCHANGED <<options, pc, batches, index, results, successful, failed,
                 skipped, batchResults, cur, retryCount, lastError, queue,
                 detached, jobRow, errorLog, fileTransfers, invoked>>

\* lines 202-215: the attempt fails; after the wait the processor is invoked
\* again
ParTaskFailsRetry(i) ==
  /\ pc = "race"
  /\ inProgress[i].st = "pending"
  /\ retryAllowed(inProgress[i].retryCount + 1, maxRetries)
  /\ inProgress' = [inProgress EXCEPT ![i].retryCount = @ + 1]
  /\ invoked' = bump(invoked, inProgress[i].task)
  /\ UNCHANGED <<nonBatch, aborted>>
  /\ UNCHANGED <<options, pc, batches, index, results, successful, failed,
                 skipped, batchResults, cur, retryCount, lastError, queue,
                 raceWinner, detached, jobRow, errorLog, fileTransfers>>

\* lines 202-228: the last attempt fails
ParTaskFailsExhausted(i) ==
  /\ pc = "race"
  /\ inProgress[i].st = "pending"
  /\ ~retryAllowed(inProgress[i].retryCount + 1, maxRetries)
  /\ \E msg \in ErrorMessages :
       /\ fileTransfers' =
            Append(fileTransfers, taskFailureRow(inProgress[i].task, msg))
       /\ inProgress' =
            [inProgress EXCEPT
               ![i].st = "fulfilled",
               ![i].retryCount = @ + 1,
               ![i].result = FailureResult(inProgress[i].task,
                                           inProgress[i].retryCount + 1,
                                           maxRetries, msg)]
  /\ raceWinner' = settleRace(i)
  /\ UNCHANGED <<nonBatch, aborted>>
  /\ UNCHANGED <<options, pc, batches, index, results, successful, failed,
                 skipped, batchResults, cur, retryCount, lastError, queue,
                 detached, jobRow, errorLog, invoked>>

\* lines 206-208: onError throws, the task's promise is rejected
ParTaskOnErrorThrows(i) ==
  /\ pc = "race"
  /\ inProgress[i].st = "pending"
  /\ inProgress' = [inProgress EXCEPT ![i].st = "rejected",
                                      ![i].retryCount = @ + 1]
  /\ raceWinner' = settleRace(i)
  /\ UNCHANGED <<nonBatch, aborted>>
  /\ UNCHANGED <<options, pc, batches, index, results, successful, failed,
                 skipped, batchResults, cur, retryCount, lastError, queue,
                 detached, jobRow, errorLog, fileTransfers, invoked>>

\* lines 164-171: the race resolved with a result; it is pushed and the
\* settled promise is looked up in the pool to be removed. The list of
\* results is kept up to its first MaxParResults entries.
ParRaceResolved ==
  /\ pc = "race"
  /\ raceWinner # 0
  /\ inProgress[raceWinner].st = "fulfilled"
  /\ LET result == inProgress[raceWinner].result
         idx == findIndex(inProgress, promiseResolve(result))
     IN /\ batchResults' = IF Len(batchResults) < MaxParResults
                            THEN pushResult(batchResults, result)
                            ELSE batchResults
        /\ inProgress' = IF idx # -1 THEN splice1(inProgress, idx)
                                     ELSE inProgress
  /\ pc' = "par"
  /\ UNCHANGED <<nonBatch, aborted>>
  /\ UNCHANGED <<options, batches, index, results, successful, failed,
                 skipped, cur, retryCount, lastError, queue, raceWinner,
                 detached, jobRow, errorLog, fileTransfers, invoked>>

\* lines 164 and 106-110: the race rejected; processBatch catches the error
\* and goes on, the batch's other promises stay in flight unawaited
ParRaceRejected ==
  /\ pc = "race"
  /\ raceWinner # 0
  /\ inProgress[raceWinner].st = "rejected"
  /\ catchBatch(OnErrorThrew, failed)
  /\ detached' = detached \o SelectSeq(inProgress, LAMBDA p : p.st = "pending")
  /\ aborted' = Append(aborted, index)
  /\ UNCHANGED nonBatch
  /\ UNCHANGED <<options, batches, results, successful, skipped, batchResults,
                 cur, retryCount, lastError, queue, inProgress, raceWinner,
                 jobRow, fileTransfers, invoked>>

\* an unawaited processTaskWithRetry settles (lines 190-228): success, or
\* onError throwing, leave no trace
DetachedSettles(i) ==
  /\ i \in 1..Len(detached)
  /\ detached' = splice1(detached, i - 1)
  /\ UNCHANGED <<nonBatch, aborted>>
  /\ UNCHANGED <<options, pc, batches, index, results, successful, failed,
                 skipped, batchResults, cur, retryCount, lastError, queue,
                 inProgress, raceWinner, jobRow, errorLog, fileTransfers,
                 invoked>>

DetachedFailsRetry(i) ==
  /\ i \in 1..Len(detached)
  /\ retryAllowed(detached[i].retryCount + 1, maxRetries)
  /\ detached' = [detached EXCEPT ![i].retryCount = @ + 1]
  /\ invoked' = bump(invoked, detached[i].task)
  /\ UNCHANGED <<nonBatch, aborted>>
  /\ UNCHANGED <<options, pc, batches, index, results, successful, failed,
                 skipped, batchResults, cur, retryCount, lastError, queue,
                 inProgress, raceWinner, jobRow, errorLog, fileTransfers>>

DetachedFailsExhausted(i) ==
  /\ i \in 1..Len(detached)
  /\ ~retryAllowed(detached[i].retryCount + 1, maxRetries)
  /\ \E msg \in ErrorMessages :
       fileTransfers' =
         Append(fileTransfers, taskFailureRow(detached[i].task, msg))
  /\ detached' = splice1(detached, i - 1)
  /\ UNCHANGED <<nonBatch, aborted>>
  /\ UNCHANGED <<options, pc, batches, index, results, successful, failed,
                 skipped, batchResults, cur, retryCount, lastError, queue,
                 inProgress, raceWinner, jobRow, errorLog, invoked>>

\* one step of one in-flight processTaskWithRetry
ParTask ==
  \E i \in 1..Len(inProgress) :
    \/ ParTaskSucceeds(i)
    \/ ParTaskFailsRetry(i)
    \/ ParTaskFailsExhausted(i)
    \/ ParTaskOnErrorThrows(i)

DetachedTask ==
  \E i \in 1..Len(detached) :
    \/ DetachedSettles(i)
    \/ DetachedFailsRetry(i)
    \/ DetachedFailsExhausted(i)

Next ==
  \/ ProcessBatchStart
  \/ EnterBatch
  \/ ReturnResult
  \/ SeqNextTask
  \/ SeqReturn
  \/ TaskSucceeds
  \/ TaskFailsRetry
  \/ TaskFailsExhausted
  \/ TaskFailsOnErrorThrows
  \/ FinishBatch
  \/ FinishBatchProgressThrows
  \/ ParFill
  \/ ParReturn
  \/ ParTask
  \/ ParRaceResolved
  \/ ParRaceRejected
  \/ DetachedTask

Init ==
  /\ OthersIdle
  /\ InitBatchProcessor
  /\ AdapterIdle
  /\ JobsIdle
  /\ BackoffIdle
  /\ RateIdle
  /\ MigrateIdle

Spec == Init /\ [][Next]_vars

\* the event loop runs every continuation that is ready, and every call of
\* the processor settles
FairSpec ==
  /\ Spec
  /\ WF_vars(ProcessBatchStart \/ EnterBatch \/ ReturnResult \/ SeqNextTask
               \/ SeqReturn \/ FinishBatch \/ ParFill \/ ParReturn
               \/ ParRaceResolved \/ ParRaceRejected)
  /\ WF_vars(TaskSucceeds \/ TaskFailsRetry \/ TaskFailsExhausted)
  /\ WF_vars(ParTask)
  /\ WF_vars(DetachedTask)



\* ------------------------------------------------ claims on BatchProcessor
CeilDiv(n, d) == (n + d - 1) \div d

ResultIds == [i \in 1..Len(results) |-> results[i].taskId]

\* position of task id t in the input list
PosOf(t) == CHOOSE i \in 1..Len(tasks) : tasks[i] = t

\* the batches whose results were appended to the returned list
RECURSIVE KeptFrom(_)
KeptFrom(k) ==
  IF k > Len(batches) THEN <<>>
  ELSE (IF \E a \in 1..Len(aborted) :
             aborted[a] = k - 1 /\ errorLog[a].error = OnErrorThrew
          THEN <<>> ELSE batches[k]) \o KeptFrom(k + 1)

\* the task's retries were exhausted: logTaskFailure wrote its row
Exhausted(t) ==
  \E r \in 1..Len(fileTransfers) : fileTransfers[r].clickup_task_id = t

RECURSIVE AbortedItems(_)
AbortedItems(a) ==
  IF a > Len(aborted) THEN 0
  ELSE Len(batches[aborted[a] + 1]) + AbortedItems(a + 1)

\* C1: createBatches splits a list of N items, for a batch size b with
\* 0 < b < N, into exactly ceil(N/b) batches whose concatenation in order is
\* the list; for b = 0 it yields exactly one batch holding all N items.
C1_CreateBatchesPartition ==
  pc # "start" =>
    /\ (0 < batchSize /\ batchSize < Len(tasks)) =>
         /\ Len(batches) = CeilDiv(Len(tasks), batchSize)
         /\ Concat(batches) = tasks
    /\ (batchSize = 0) => batches = <<tasks>>

C1_Witness ==
  /\ pc # "start"
  /\ 0 < batchSize /\ batchSize < Len(tasks)
  /\ Len(tasks) % batchSize # 0
  /\ Len(batches) = 2
  /\ Len(batches[2]) < batchSize

\* C2: in sequential mode the task ids of the returned results follow the
\* order of the input list, for every batch size and every pattern of
\* successes and failures: the returned ids are the input with the abandoned
\* batches left out, so the whole input when no batch was abandoned.
C2_SequentialKeepsOrder ==
  (~parallel /\ pc = "done") =>
    /\ \A i, j \in 1..Len(results) :
         i < j => PosOf(ResultIds[i]) < PosOf(ResultIds[j])
    /\ ResultIds = KeptFrom(1)
    /\ (aborted = <<>> => ResultIds = tasks)

C2_Witness ==
  /\ ~parallel /\ pc = "done"
  /\ Len(results) = 3 /\ Len(batches) = 2
  /\ tasks[1] > tasks[2]
  /\ results[1].success /\ ~results[2].success /\ results[3].success

\* C3: in parallel mode the result list of a pass holds exactly one result
\* per item of the batch: no task id twice while it is filled, and the ids
\* of the batch when the pass returns.
C3_ParallelOneResultPerItem ==
  (parallel /\ pc \in {"par", "race", "count"}) =>
    /\ \A i, j \in 1..Len(batchResults) :
         i # j => batchResults[i].taskId # batchResults[j].taskId
    /\ (pc = "count" =>
          {batchResults[i].taskId : i \in 1..Len(batchResults)}
            = Range(CurrentBatch))

\* C4: once an item has failed after its retries were exhausted, it has one
\* failure result carrying its task id and error, and the processor is
\* eventually invoked for every later item of the input (the runs in which a
\* batch-level exception abandons a batch are left to C5).
ResultsSoFar ==
  IF pc \in {"seq", "try", "par", "race", "count"}
    THEN results \o batchResults
    ELSE results

FailureResultOf(t) ==
  {r \in 1..Len(ResultsSoFar) :
     /\ ResultsSoFar[r].taskId = t
     /\ ~ResultsSoFar[r].success
     /\ ResultsSoFar[r].error # NoError}

C4_FailureDoesNotStopLaterItems ==
  \A i, j \in 1..MaxTasks :
    i < j =>
      []((j <= Len(tasks) /\ Exhausted(tasks[i]))
           => <>(\/ aborted # <<>>
                 \/ /\ j <= Len(tasks)
                    /\ invoked[tasks[j]] >= 1
                    /\ Cardinality(FailureResultOf(tasks[i])) = 1))

\* C5: an exception that reaches processBatch from the handling of a batch
\* is appended to the job's error log, every item of that batch is counted
\* as failed, the loop goes on with the next batch, every batch is entered,
\* and processBatch returns instead of throwing.
C5_BatchExceptionAbsorbed ==
  /\ pc # "thrown"
  /\ Len(errorLog) = Len(aborted)
  /\ \A a \in 1..Len(aborted) :
       /\ errorLog[a].message =
            <<"Batch", ToString(aborted[a]), "processing", "failed">>
       /\ errorLog[a].error \in {OnErrorThrew, OnProgressThrew}
       /\ index > aborted[a]
  /\ failed >= AbortedItems(1)
  /\ (pc = "done" /\ aborted # <<>>) =>
       /\ index = Len(batches)
       /\ failed = AbortedItems(1) + countFailed(results)
       /\ \A k \in 1..Len(batches) :
            batches[k] # <<>> => invoked[batches[k][1]] >= 1

C5_Witness ==
  /\ pc = "done"
  /\ Len(batches) = 3
  /\ aborted = <<0>>
  /\ successful = 2


\* ============================================== ExponentialBackoff.execute
\* the value undefined; in a template string it reads "undefined"
Undefined == <<"undefined">>

\* no error thrown so far
NoThrown == [message |-> <<>>, code |-> <<>>]

\* execute called without a retryableErrors argument
NoFilter == [given |-> FALSE, list |-> <<>>]

\* constructor defaults of ExponentialBackoff
baseDelay == 1000
maxDelay == 30000

\* an error has a message and a code; either may be undefined
RemoteErrors ==
  { [message |-> <<"connect", "ETIMEDOUT", "10.0.0.1">>, code |-> Undefined],
    [message |-> <<"socket", "hang", "up">>, code |-> <<"ECONNRESET">>],
    [message |-> <<"invalid", "query">>, code |-> Undefined],
    [message |-> Undefined, code |-> Undefined] }

\* the retryableErrors argument: absent, empty, or a list of signatures
FilterLists ==
  { NoFilter,
    [given |-> TRUE, list |-> <<>>],
    [given |-> TRUE, list |-> << <<"ETIMEDOUT">> >>],
    [given |-> TRUE, list |-> << <<"ETIMEDOUT">>, <<"ECONNRESET">> >>] }

\* retryableErrors && retryableErrors.length > 0
filterActive(f) == f.given /\ Len(f.list) > 0

\* a filter that takes every error for a retryable one
isRetryableAny(err, f) == TRUE

\* retryableErrors.some(errMsg => error.message?.includes(errMsg)
\*                                || error.code?.includes(errMsg))
isRetryable(err, f) ==
  \E k \in 1..Len(f.list) :
    \/ err.message # Undefined /\ includes(err.message, f.list[k])
    \/ err.code # Undefined /\ includes(err.code, f.list[k])

\* `${error.message}` inside a template string
messageText(err) == err.message

\* new Error(`Max retry attempts (${maxAttempts}) exceeded: ${error.message}`)
terminalError(maxA, err) ==
  [message |-> <<"Max", "retry", "attempts", ToString(maxA), "exceeded:">>
                 \o messageText(err),
   code |-> Undefined]

RECURSIVE pow2(_)
pow2(n) == IF n <= 0 THEN 1 ELSE 2 * pow2(n - 1)

\* Math.min(baseDelay * Math.pow(2, attempt - 1), maxDelay)
backoffDelay(a) == Min(baseDelay * pow2(a - 1), maxDelay)

\* an exhaustion test that allows one attempt too many
attemptsExhaustedLate(a, maxA) == a > maxA

\* this.attempt >= this.maxAttempts
attemptsExhausted(a, maxA) == a >= maxA

\* the batch processor at rest
BatchIdle ==
  /\ tasks = <<>>
  /\ batchSize = 0
  /\ maxRetries = 0
  /\ parallel = FALSE
  /\ maxParallel = 1
  /\ pc = "idle"
  /\ batches = <<>>
  /\ index = 0
  /\ results = <<>>
  /\ successful = 0
  /\ failed = 0
  /\ skipped = 0
  /\ batchResults = <<>>
  /\ cur = 1
  /\ retryCount = 0
  /\ lastError = NoError
  /\ queue = <<>>
  /\ inProgress = <<>>
  /\ raceWinner = 0
  /\ detached = <<>>
  /\ jobRow = [processed |-> 0, total |-> 0, status |-> "pending"]
  /\ errorLog = <<>>
  /\ fileTransfers = <<>>
  /\ invoked = [t \in TaskIds |-> 0]
  /\ aborted = <<>>

InitBackoff ==
  /\ OthersIdle
  /\ BatchIdle
  /\ AdapterIdle
  /\ JobsIdle
  /\ RateIdle
  /\ MigrateIdle
  /\ maxAttempts \in 1..MaxAttemptsBound
  /\ retryableErrors \in FilterLists
  /\ attempt = 0
  /\ xpc = "idle"
  /\ returned = "none"
  /\ thrown = NoThrown
  /\ fnCalls = 0
  /\ fnErrors = <<>>
  /\ slept = <<>>

\* execute, line 94: a call of execute on an instance that is not executing
Execute ==
  /\ xpc \in {"idle", "returned", "thrown"}
  /\ attempt' = 0
  /\ xpc' = "call"
  /\ returned' = "none"
  /\ thrown' = NoThrown
  /\ fnCalls' = 0
  /\ fnErrors' = <<>>
  /\ slept' = <<>>
  /\ UNCHANGED <<maxAttempts, retryableErrors>>

\* lines 97-100: fn resolves
FnResolves ==
  /\ xpc = "call"
  /\ fnCalls' = fnCalls + 1
  /\ attempt' = 0
  /\ returned' = "value"
  /\ xpc' = "returned"
  /\ UNCHANGED <<maxAttempts, retryableErrors, thrown, fnErrors, slept>>

\* lines 101-112: fn rejects with an error the filter does not let through
FnRejectsNotRetryable(err) ==
  /\ xpc = "call"
  /\ filterActive(retryableErrors)
  /\ ~isRetryable(err, retryableErrors)
  /\ fnCalls' = fnCalls + 1
  /\ fnErrors' = Append(fnErrors, err)
  /\ attempt' = attempt + 1
  /\ thrown' = err
  /\ xpc' = "thrown"
  /\ UNCHANGED <<maxAttempts, retryableErrors, returned, slept>>

\* lines 101-117: fn rejects on the last attempt
FnRejectsExhausted(err) ==
  /\ xpc = "call"
  /\ filterActive(retryableErrors) => isRetryable(err, retryableErrors)
  /\ attemptsExhausted(attempt + 1, maxAttempts)
  /\ fnCalls' = fnCalls + 1
  /\ fnErrors' = Append(fnErrors, err)
  /\ attempt' = attempt + 1
  /\ thrown' = terminalError(maxAttempts, err)
  /\ xpc' = "thrown"
  /\ UNCHANGED <<maxAttempts, retryableErrors, returned, slept>>

\* lines 101-126: fn rejects, execute sleeps and calls fn again
FnRejectsRetry(err) ==
  /\ xpc = "call"
  /\ filterActive(retryableErrors) => isRetryable(err, retryableErrors)
  /\ ~attemptsExhausted(attempt + 1, maxAttempts)
  /\ fnCalls' = fnCalls + 1
  /\ fnErrors' = Append(fnErrors, err)
  /\ attempt' = attempt + 1
  /\ slept' = Append(slept, backoffDelay(attempt + 1))
  /\ UNCHANGED <<maxAttempts, retryableErrors, xpc, returned, thrown>>

ExecuteCall == Execute /\ UNCHANGED nonBackoff
FnResolvesCall == FnResolves /\ UNCHANGED nonBackoff
FnRejectsNotRetryableCall ==
  \E err \in RemoteErrors : FnRejectsNotRetryable(err) /\ UNCHANGED nonBackoff
FnRejectsExhaustedCall ==
  \E err \in RemoteErrors : FnRejectsExhausted(err) /\ UNCHANGED nonBackoff
FnRejectsRetryCall ==
  \E err \in RemoteErrors : FnRejectsRetry(err) /\ UNCHANGED nonBackoff

NextBackoff ==
  \/ ExecuteCall
  \/ FnResolvesCall
  \/ FnRejectsNotRetryableCall
  \/ FnRejectsExhaustedCall
  \/ FnRejectsRetryCall

SpecBackoff == InitBackoff /\ [][NextBackoff]_vars


\* --------------------------------------------- claims on ExponentialBackoff
LastFnError == fnErrors[Len(fnErrors)]

\* every failure of fn so far was one that execute retries
AllRetryable ==
  filterActive(retryableErrors) =>
    \A k \in 1..Len(fnErrors) : isRetryable(fnErrors[k], retryableErrors)

\* C7: when fn fails k < maxAttempts times and then succeeds, execute returns
\* the success value and the attempt counter is back at zero; when fn fails
\* maxAttempts times in a row, fn has been invoked exactly maxAttempts times
\* and execute throws the terminal error that names maxAttempts. (Failures
\* that a filter list does not let through are the subject of C8.)
C7_BackoffReturnsOrExhausts ==
  /\ xpc = "returned" =>
       /\ returned = "value"
       /\ attempt = 0
       /\ Len(fnErrors) < maxAttempts
       /\ fnCalls = Len(fnErrors) + 1
       /\ Len(slept) = Len(fnErrors)
  /\ (AllRetryable /\ Len(fnErrors) < maxAttempts) => xpc # "thrown"
  /\ (AllRetryable /\ Len(fnErrors) >= maxAttempts) =>
       /\ xpc = "thrown"
       /\ fnCalls = maxAttempts
       /\ Len(fnErrors) = maxAttempts
       /\ SubSeq(thrown.message, 1, 5) =
            <<"Max", "retry", "attempts", ToString(maxAttempts), "exceeded:">>

C7_Witness ==
  /\ xpc = "returned"
  /\ maxAttempts = 3
  /\ Len(fnErrors) = 2
  /\ slept = <<1000, 2000>>
  /\ attempt = 0

\* the error's message or code contains one of the listed signatures
MatchesSignature(err, f) ==
  \E sig \in Range(f.list) :
    \/ err.message # Undefined /\ includes(err.message, sig)
    \/ err.code # Undefined /\ includes(err.code, sig)

\* C8: with a non-empty filter list an error matching no signature is
\* rethrown unchanged by the invocation that raised it, with no delay and no
\* further attempt; only matching errors are retried; exhausting the attempts
\* throws an error whose message wraps the last cause's message.
C8_FilterStopsNonMatching ==
  filterActive(retryableErrors) =>
    /\ \A k \in 1..(Len(fnErrors) - 1) :
         MatchesSignature(fnErrors[k], retryableErrors)
    /\ (fnErrors # <<>> /\ ~MatchesSignature(LastFnError, retryableErrors)) =>
         /\ xpc = "thrown"
         /\ thrown = LastFnError
         /\ fnCalls = Len(fnErrors)
         /\ Len(slept) = Len(fnErrors) - 1
    /\ (xpc = "thrown" /\ MatchesSignature(LastFnError, retryableErrors)) =>
         /\ Len(fnErrors) = maxAttempts
         /\ thrown # LastFnError
         /\ SubSeq(thrown.message, 6, Len(thrown.message)) = LastFnError.message
         /\ Len(slept) = maxAttempts - 1

C8_Witness ==
  /\ filterActive(retryableErrors)
  /\ xpc = "thrown"
  /\ Len(fnErrors) = 2
  /\ MatchesSignature(fnErrors[1], retryableErrors)
  /\ ~MatchesSignature(fnErrors[2], retryableErrors)
  /\ thrown = fnErrors[2]
  /\ Len(slept) = 1


\* ------------------------------------------------------------ RateLimiter
\* Date.now() when the RateLimiter is constructed: long after the epoch, so
\* that the initial lastRequestTime = 0 lies further back than any interval
StartTime == 1000

\* `+ 100` ms buffer added to the wait for a free slot
SafetyBuffer == 100

\* configurations a RateLimiter is built with; minInterval = 0 stands for a
\* minInterval that is absent (both are falsy at line 48)
Configs ==
  [maxRequests : {1, 2}, windowMs : {300}, minInterval : {0, 200}]

\* amounts of time that pass between two steps of the program
Ticks == {100, 200}

\* a filter that never lets a request leave the window
inWindowForever(t, time, windowMs) == TRUE

\* time => now - time < this.config.windowMs
inWindow(t, time, windowMs) == t - time < windowMs

\* this.requests.filter(time => now - time < this.config.windowMs)
filterWindow(reqs, t, windowMs) ==
  SelectSeq(reqs, LAMBDA time : inWindow(t, time, windowMs))

\* Math.min(...this.requests)
RECURSIVE minOf(_)
minOf(reqs) ==
  IF Len(reqs) = 1 THEN reqs[1] ELSE Min(reqs[1], minOf(Tail(reqs)))

\* a wait that lets the caller go on at once
capWaitNone(t, oldestRequest, windowMs) == 0

\* this.config.windowMs - (now - oldestRequest) + 100
capWait(t, oldestRequest, windowMs) ==
  windowMs - (t - oldestRequest) + SafetyBuffer

\* this.config.minInterval - (now - this.lastRequestTime), when that is due
intervalWait(t) ==
  IF config.minInterval # 0 /\ t - lastRequestTime < config.minInterval
    THEN config.minInterval - (t - lastRequestTime)
    ELSE 0

\* records of the history that lie inside the window that ends at time t
RecordedInWindow(t) ==
  Cardinality({k \in 1..Len(recorded) : recorded[k] > t - config.windowMs})

InitRate ==
  /\ OthersIdle
  /\ BatchIdle
  /\ AdapterIdle
  /\ JobsIdle
  /\ BackoffIdle
  /\ MigrateIdle
  /\ now = StartTime
  /\ config \in Configs
  /\ requests = <<>>
  /\ lastRequestTime = 0
  /\ rpc = "idle"
  /\ wnow = 0
  /\ wakeAt = 0
  /\ probe = NoProbe
  /\ recorded = <<>>
  /\ starts = <<>>

\* time passes
Tick ==
  \E d \in Ticks :
    /\ now + d <= MaxTime
    /\ now' = now + d
    /\ UNCHANGED <<config, requests, lastRequestTime, rpc, wnow, wakeAt,
                   probe, recorded, starts>>
    /\ UNCHANGED nonRate

\* lines 47-54, entered at time `at` with the `now` read at line 30: sleep for
\* the rest of the minimum interval, or return
intervalStep(t, at) ==
  IF intervalWait(t) > 0
    THEN /\ rpc' = "intervalSleep"
         /\ wakeAt' = at + intervalWait(t)
    ELSE /\ rpc' = "ready"
         /\ wakeAt' = 0

\* waitForReset, lines 29-55, up to its first await or its return
WaitForReset ==
  /\ rpc = "idle"
  /\ Len(starts) < MaxRecords
  /\ LET kept == filterWindow(requests, now, config.windowMs)
         waitTime == capWait(now, minOf(kept), config.windowMs)
     IN /\ requests' = kept
        /\ wnow' = now
        /\ IF Len(kept) >= config.maxRequests /\ waitTime > 0
             THEN /\ rpc' = "capSleep"
                  /\ wakeAt' = now + waitTime
             ELSE intervalStep(now, now)
  /\ UNCHANGED <<now, config, lastRequestTime, probe, recorded,
                 starts>>
  /\ UNCHANGED nonRate

\* line 43: the sleep for a free slot is over
CapSleepDone ==
  /\ rpc = "capSleep"
  /\ now >= wakeAt
  /\ intervalStep(wnow, now)
  /\ UNCHANGED <<now, config, requests, lastRequestTime, wnow, probe, recorded, starts>>
  /\ UNCHANGED nonRate

\* line 52: the sleep for the minimum interval is over, waitForReset returns
IntervalSleepDone ==
  /\ rpc = "intervalSleep"
  /\ now >= wakeAt
  /\ rpc' = "ready"
  /\ wakeAt' = 0
  /\ UNCHANGED <<now, config, requests, lastRequestTime, wnow, probe, recorded, starts>>
  /\ UNCHANGED nonRate

\* the caller starts its remote call after waitForReset has returned
StartCall ==
  /\ rpc = "ready"
  /\ rpc' = "calling"
  /\ starts' = Append(starts, now)
  /\ UNCHANGED <<now, config, requests, lastRequestTime, wnow, wakeAt,
                 probe, recorded>>
  /\ UNCHANGED nonRate

\* recordRequest, lines 57-60, called when the remote call is over
RecordRequest ==
  /\ rpc = "calling"
  /\ requests' = Append(requests, now)
  /\ lastRequestTime' = now
  /\ recorded' = Append(recorded, now)
  /\ rpc' = "idle"
  /\ UNCHANGED <<now, config, wnow, wakeAt, probe, starts>>
  /\ UNCHANGED nonRate

\* checkLimit, lines 18-27
CheckLimit ==
  /\ rpc # "off"
  /\ LET kept == filterWindow(requests, now, config.windowMs)
     IN /\ requests' = kept
        /\ probe' = [op |-> "checkLimit",
                     ok |-> Len(kept) < config.maxRequests,
                     remaining |-> 0,
                     inWindow |-> RecordedInWindow(now),
                     total |-> Len(recorded)]
  /\ UNCHANGED <<now, config, lastRequestTime, rpc, wnow, wakeAt, recorded,
                 starts>>
  /\ UNCHANGED nonRate

\* getRemainingQuota, lines 62-68
GetRemainingQuota ==
  /\ rpc # "off"
  /\ LET kept == filterWindow(requests, now, config.windowMs)
     IN /\ requests' = kept
        /\ probe' = [op |-> "getRemainingQuota",
                     ok |-> TRUE,
                     remaining |-> Max(0, config.maxRequests - Len(kept)),
                     inWindow |-> RecordedInWindow(now),
                     total |-> Len(recorded)]
  /\ UNCHANGED <<now, config, lastRequestTime, rpc, wnow, wakeAt, recorded,
                 starts>>
  /\ UNCHANGED nonRate

NextRate ==
  \/ Tick
  \/ WaitForReset
  \/ CapSleepDone
  \/ IntervalSleepDone
  \/ StartCall
  \/ RecordRequest
  \/ CheckLimit
  \/ GetRemainingQuota

SpecRate == InitRate /\ [][NextRate]_vars


\* ---------------------------------------------------- claims on RateLimiter
\* the probe saw exactly maxRequests records, all of them inside the window
ProbeAtCapacity ==
  /\ probe.total = config.maxRequests
  /\ probe.inWindow = config.maxRequests

\* the probe came when every one of the maxRequests records had left the window
ProbePastWindow ==
  /\ probe.total = config.maxRequests
  /\ probe.inWindow = 0

\* C9: after exactly maxRequests recordRequest calls inside one window
\* checkLimit answers false and getRemainingQuota answers 0; once the window
\* measured from those requests has passed, checkLimit answers true and
\* getRemainingQuota answers maxRequests.  In general the two answers are
\* decided by the number of recorded requests inside the window.
C9_ProbeFollowsWindow ==
  /\ probe.op = "checkLimit" =>
       /\ ProbeAtCapacity => probe.ok = FALSE
       /\ ProbePastWindow => probe.ok = TRUE
       /\ probe.ok = (probe.inWindow < config.maxRequests)
  /\ probe.op = "getRemainingQuota" =>
       /\ ProbeAtCapacity => probe.remaining = 0
       /\ ProbePastWindow => probe.remaining = config.maxRequests
       /\ probe.remaining = Max(0, config.maxRequests - probe.inWindow)

C9_Witness ==
  /\ config.maxRequests = 2
  /\ probe.op = "getRemainingQuota"
  /\ ProbePastWindow
  /\ probe.remaining = 2
  /\ now - recorded[2] = config.windowMs

\* number of recorded requests inside the window of windowMs that starts at t
RecordedFrom(t) ==
  Cardinality({k \in 1..Len(recorded) :
                 recorded[k] >= t /\ recorded[k] < t + config.windowMs})

\* C10: with one caller that does waitForReset, the remote call, then
\* recordRequest, no window of windowMs ever holds more than maxRequests
\* recorded timestamps, and two consecutive remote calls start at least
\* minInterval apart.
C10_WindowAndSpacing ==
  /\ \A k \in 1..Len(recorded) : RecordedFrom(recorded[k]) <= config.maxRequests
  /\ \A k \in 2..Len(starts) : starts[k] - starts[k - 1] >= config.minInterval

C10_Witness ==
  /\ config.maxRequests = 2
  /\ config.minInterval = 200
  /\ Len(recorded) = 3
  /\ starts[2] - starts[1] = config.minInterval
  /\ recorded[2] - recorded[1] < config.windowMs
  /\ recorded[3] - recorded[1] >= config.windowMs + SafetyBuffer


\* ------------------------------------- ListReplicator.migrateTasks, MondayAPI
\* new RateLimiter({maxRequests: 60, windowMs: 60 * 1000, minInterval: 500})
MondayRateConfig == [maxRequests |-> 60, windowMs |-> 60000, minInterval |-> 500]

\* new ExponentialBackoff(3, 1000, 30000)
MondayMaxAttempts == 3

\* the signatures makeRequest hands to backoff.execute
MondayRetryable ==
  [given |-> TRUE,
   list |-> << <<"ETIMEDOUT">>, <<"ECONNRESET">>,
               <<"complexity_budget_exhausted">> >>]

\* processBatch(tasks, 10, ..., {maxRetries: 3, parallel: false, ...})
MigrateBatchSize == 10
MigrateMaxRetries == 3

\* task lists handed to migrateTasks
MigrateTaskLists == {<<1>>, <<1, 2>>, <<2, 1>>}

\* errors of a remote request: one with a retryable signature, one without
MondayErrors ==
  { [message |-> <<"connect", "ETIMEDOUT", "10.0.0.1">>, code |-> Undefined],
    [message |-> <<"invalid", "query">>, code |-> Undefined] }

\* error of a step of migrateTask other than createItem
StepError == <<"step", "failed">>

\* the row migrateTask inserts into task_mappings, lines 244-252
mappingRow(task, item) ==
  [clickup_task_id |-> task, monday_item_id |-> item, sync_status |-> "synced"]

\* the task_mappings rows an earlier run left behind: none, or, for a rerun
\* of a one-task list, the row of that task pointing at the item the earlier
\* run created for it
EarlierItem == 0
EarlierMappings(ts) ==
  IF Len(ts) = 1 THEN {<<>>, <<mappingRow(ts[1], EarlierItem)>>} ELSE {<<>>}

\* the rows holding a given source task
rowsOf(rows, task) ==
  {k \in 1..Len(rows) : rows[k].clickup_task_id = task}

\* db.from('task_mappings').insert(row): clickup_task_id is UNIQUE, so the
\* store rejects a second row for a task; the error comes back in the
\* result, which migrateTask does not look at
insertMappingBad(rows, row) ==
  IF rowsOf(rows, row.clickup_task_id) # {}
  THEN [k \in 1..Len(rows) |->
          IF rows[k].clickup_task_id = row.clickup_task_id
          THEN row ELSE rows[k]]
  ELSE Append(rows, row)

insertMapping(rows, row) ==
  IF rowsOf(rows, row.clickup_task_id) # {}
  THEN rows
  ELSE Append(rows, row)

InitMigrate ==
  /\ OthersIdle
  /\ AdapterIdle
  /\ JobsIdle
  /\ tasks \in MigrateTaskLists
  /\ batchSize = MigrateBatchSize
  /\ maxRetries = MigrateMaxRetries
  /\ parallel = FALSE
  /\ maxParallel = 5
  /\ pc = "start"
  /\ batches = <<>>
  /\ index = 0
  /\ results = <<>>
  /\ successful = 0
  /\ failed = 0
  /\ skipped = 0
  /\ batchResults = <<>>
  /\ cur = 1
  /\ retryCount = 0
  /\ lastError = NoError
  /\ queue = <<>>
  /\ inProgress = <<>>
  /\ raceWinner = 0
  /\ detached = <<>>
  /\ jobRow = [processed |-> 0, total |-> 0, status |-> "pending"]
  /\ errorLog = <<>>
  /\ fileTransfers = <<>>
  /\ invoked = [t \in TaskIds |-> 0]
  /\ aborted = <<>>
  /\ maxAttempts = MondayMaxAttempts
  /\ retryableErrors = MondayRetryable
  /\ attempt = 0
  /\ xpc = "idle"
  /\ returned = "none"
  /\ thrown = NoThrown
  /\ fnCalls = 0
  /\ fnErrors = <<>>
  /\ slept = <<>>
  /\ now = StartTime
  /\ config = MondayRateConfig
  /\ requests = <<>>
  /\ lastRequestTime = 0
  /\ rpc = "off"
  /\ wnow = 0
  /\ wakeAt = 0
  /\ probe = NoProbe
  /\ recorded = <<>>
  /\ starts = <<>>
  /\ proc = "idle"
  /\ procError = NoError
  /\ mondayItems = <<>>
  /\ taskMappings \in EarlierMappings(tasks)
  /\ hist = [t \in TaskIds |-> NoHistory]

\* the steps of processBatch and processSequential around the processor
MigrateBatchStep ==
  \/ ProcessBatchStart
  \/ EnterBatch
  \/ SeqNextTask
  \/ SeqReturn
  \/ FinishBatch
  \/ ReturnResult

\* part_004 line 192 and migrateTask, lines 214-232: the processor is
\* invoked; it fetches the full task when asked to and transforms the fields
MigrateTaskCall ==
  /\ pc = "try"
  /\ retryCount <= maxRetries
  /\ proc = "idle"
  /\ invoked' = bump(invoked, CurrentBatch[cur])
  /\ proc' = "started"
  /\ UNCHANGED <<tasks, batchSize, maxRetries, parallel, maxParallel, pc,
                 batches, index, results, successful, failed, skipped,
                 batchResults, cur, retryCount, lastError, queue, inProgress,
                 raceWinner, detached, jobRow, errorLog, fileTransfers,
                 aborted>>
  /\ UNCHANGED <<xvars, rvars, procError, mondayItems, taskMappings, hist>>
  /\ UNCHANGED outside

\* migrateTask, line 224: fetching the full task rejects
MigrateGetTaskRejects ==
  /\ proc = "started"
  /\ proc' = "rejected"
  /\ procError' = StepError
  /\ hist' = [hist EXCEPT ![CurrentBatch[cur]].otherRejected = TRUE]
  /\ UNCHANGED <<bvars, xvars, rvars, mondayItems, taskMappings>>
  /\ UNCHANGED outside

\* migrateTask, line 235 -> createItem -> makeRequest, lines 47-61:
\* waitForReset runs to its end (the clock moves on by the time it sleeps),
\* then backoff.execute starts.  The complexity check of lines 51-59 only
\* delays the request further.
MigrateCreateItemCall ==
  /\ proc = "started"
  /\ LET kept == filterWindow(requests, now, config.windowMs)
         capSleep == IF Len(kept) >= config.maxRequests
                       THEN Max(0, capWait(now, minOf(kept), config.windowMs))
                       ELSE 0
     IN /\ requests' = kept
        /\ wnow' = now
        /\ now' = now + capSleep + intervalWait(now)
  /\ Execute
  /\ proc' = "createItem"
  /\ UNCHANGED <<config, lastRequestTime, rpc, wakeAt, probe, recorded,
                 starts>>
  /\ UNCHANGED <<bvars, procError, mondayItems, taskMappings, hist>>
  /\ UNCHANGED outside

\* the remote create_item request of lines 62-79 resolves
RequestResolves ==
  /\ proc = "createItem"
  /\ FnResolves
  /\ UNCHANGED nonBackoff

\* the remote request rejects, execute rethrows the error
RequestRejectsNotRetryable ==
  /\ proc = "createItem"
  /\ \E err \in MondayErrors : FnRejectsNotRetryable(err)
  /\ UNCHANGED nonBackoff

\* the remote request rejects for the last time, execute throws
RequestRejectsExhausted ==
  /\ proc = "createItem"
  /\ \E err \in MondayErrors : FnRejectsExhausted(err)
  /\ UNCHANGED nonBackoff

\* the remote request rejects, execute sleeps and sends it again
RequestRejectsRetry ==
  /\ proc = "createItem"
  /\ \E err \in MondayErrors : FnRejectsRetry(err)
  /\ UNCHANGED nonBackoff

\* the call of execute is over
executeSettled ==
  /\ xpc' = "idle"
  /\ returned' = "none"
  /\ thrown' = NoThrown
  /\ fnCalls' = 0
  /\ fnErrors' = <<>>
  /\ slept' = <<>>
  /\ UNCHANGED <<maxAttempts, retryableErrors, attempt>>

\* makeRequest, lines 82-83, createItem, line 267, migrateTask, lines 241-252:
\* execute returned; the request is recorded, the item exists, its mapping
\* row is inserted
MigrateCreateItemResolves ==
  /\ proc = "createItem"
  /\ xpc = "returned"
  /\ executeSettled
  /\ requests' = Append(requests, now)
  /\ lastRequestTime' = now
  /\ recorded' = Append(recorded, now)
  /\ mondayItems' = Append(mondayItems, CurrentBatch[cur])
  /\ taskMappings' =
       insertMapping(taskMappings,
                     mappingRow(CurrentBatch[cur], Len(mondayItems) + 1))
  /\ hist' = [hist EXCEPT
                ![CurrentBatch[cur]].requestFailed =
                   Min(@ + Len(fnErrors), maxRetries + 1)]
  /\ proc' = "created"
  /\ UNCHANGED <<now, config, rpc, wnow, wakeAt, probe, starts>>
  /\ UNCHANGED <<bvars, procError>>
  /\ UNCHANGED outside

\* makeRequest, line 61: execute threw; nothing is recorded, createItem and
\* migrateTask reject with the same error
MigrateCreateItemRejects ==
  /\ proc = "createItem"
  /\ xpc = "thrown"
  /\ executeSettled
  /\ proc' = "rejected"
  /\ procError' = thrown.message
  /\ hist' = [hist EXCEPT
                ![CurrentBatch[cur]].createRejected = @ + 1,
                ![CurrentBatch[cur]].requestFailed =
                   Min(@ + Len(fnErrors), maxRetries + 1)]
  /\ UNCHANGED <<bvars, rvars, mondayItems, taskMappings>>
  /\ UNCHANGED outside

\* migrateTask, lines 254-284: the steps after the insert all succeed
MigrateLaterStepsResolve ==
  /\ proc = "created"
  /\ proc' = "resolved"
  /\ UNCHANGED <<bvars, xvars, rvars, procError, mondayItems, taskMappings,
                 hist>>
  /\ UNCHANGED outside

\* migrateTask, lines 254-282: one of the steps after the insert rejects
MigrateLaterStepRejects ==
  /\ proc = "created"
  /\ proc' = "rejected"
  /\ procError' = StepError
  /\ hist' = [hist EXCEPT ![CurrentBatch[cur]].otherRejected = TRUE]
  /\ UNCHANGED <<bvars, xvars, rvars, mondayItems, taskMappings>>
  /\ UNCHANGED outside

\* part_004 lines 192-201: migrateTask resolved
MigrateTaskResolved ==
  /\ pc = "try"
  /\ proc = "resolved"
  /\ returnSuccess
  /\ proc' = "idle"
  /\ UNCHANGED <<invoked, aborted>>
  /\ procError' = NoError
  /\ UNCHANGED <<xvars, rvars, mondayItems, taskMappings, hist>>
  /\ UNCHANGED outside

\* part_004 lines 202-215: migrateTask rejected, onError logs the error, the
\* task is tried again after the wait
MigrateTaskRejectedRetry ==
  /\ pc = "try"
  /\ proc = "rejected"
  /\ catchRetry(procError)
  /\ proc' = "idle"
  /\ UNCHANGED <<invoked, aborted>>
  /\ procError' = NoError
  /\ UNCHANGED <<xvars, rvars, mondayItems, taskMappings, hist>>
  /\ UNCHANGED outside

\* part_004 lines 202-228: migrateTask rejected on the last attempt
MigrateTaskRejectedExhausted ==
  /\ pc = "try"
  /\ proc = "rejected"
  /\ catchExhausted(procError)
  /\ proc' = "idle"
  /\ UNCHANGED <<invoked, aborted>>
  /\ procError' = NoError
  /\ UNCHANGED <<xvars, rvars, mondayItems, taskMappings, hist>>
  /\ UNCHANGED outside

NextMigrate ==
  \/ MigrateBatchStep
  \/ MigrateTaskCall
  \/ MigrateGetTaskRejects
  \/ MigrateCreateItemCall
  \/ RequestResolves
  \/ RequestRejectsNotRetryable
  \/ RequestRejectsExhausted
  \/ RequestRejectsRetry
  \/ MigrateCreateItemResolves
  \/ MigrateCreateItemRejects
  \/ MigrateLaterStepsResolve
  \/ MigrateLaterStepRejects
  \/ MigrateTaskResolved
  \/ MigrateTaskRejectedRetry
  \/ MigrateTaskRejectedExhausted

SpecMigrate == InitMigrate /\ [][NextMigrate]_vars


\* ------------------------------------------------ claims on task migration
\* positions of the results reported for task t
ResultsOf(t) == {r \in 1..Len(ResultsSoFar) : ResultsSoFar[r].taskId = t}

\* task_mappings rows of task t with sync_status = synced
SyncedMappingsOf(t) ==
  {k \in 1..Len(taskMappings) :
     /\ taskMappings[k].clickup_task_id = t
     /\ taskMappings[k].sync_status = "synced"}

NewAdapter == [pc |-> "idle", requests |-> <<>>, lastRequestTime |-> 0,
               wnow |-> 0, wakeAt |-> 0, sent |-> 0]

\* a job that has not constructed its adapter yet
NewJob == [NoJob EXCEPT !.pc = "new"]

\* lines 47-54 of waitForReset for a limiter whose last request was at `last`
intervalWaitOf(t, last) ==
  IF config.minInterval # 0 /\ t - last < config.minInterval
    THEN config.minInterval - (t - last)
    ELSE 0

InitJobs ==
  /\ OthersIdle
  /\ BatchIdle
  /\ AdapterIdle
  /\ BackoffIdle
  /\ MigrateIdle
  /\ now = StartTime
  /\ config \in Configs
  /\ requests = <<>>
  /\ lastRequestTime = 0
  /\ rpc = "off"
  /\ wnow = 0
  /\ wakeAt = 0
  /\ probe = NoProbe
  /\ recorded = <<>>
  /\ starts = <<>>
  /\ jobs = [j \in JobIds |-> NewJob]
  /\ serviceLog = <<>>

\* the job's constructor builds the adapter
JobConstruct(j) ==
  /\ jobs[j].pc = "new"
  /\ jobs' = [jobs EXCEPT ![j] = NewAdapter]
  /\ UNCHANGED serviceLog

\* where waitForReset of job j goes at lines 47-54, entered at time `at`
jobIntervalStep(j, kept, t, at) ==
  LET w == intervalWaitOf(t, jobs[j].lastRequestTime)
  IN jobs' = [jobs EXCEPT ![j].requests = kept,
                          ![j].wnow = t,
                          ![j].pc = IF w > 0 THEN "intervalSleep" ELSE "calling",
                          ![j].wakeAt = IF w > 0 THEN at + w ELSE 0]

\* makeRequest of job j: waitForReset up to its first await or its return
JobWaitForReset(j) ==
  /\ jobs[j].pc = "idle"
  /\ jobs[j].sent < MaxJobRequests
  /\ LET kept == filterWindow(jobs[j].requests, now, config.windowMs)
         waitTime == capWait(now, minOf(kept), config.windowMs)
     IN IF Len(kept) >= config.maxRequests /\ waitTime > 0
          THEN jobs' = [jobs EXCEPT ![j].requests = kept,
                                    ![j].wnow = now,
                                    ![j].pc = "capSleep",
                                    ![j].wakeAt = now + waitTime]
          ELSE jobIntervalStep(j, kept, now, now)
  /\ UNCHANGED serviceLog

\* the sleep for a free slot of job j is over
JobCapSleepDone(j) ==
  /\ jobs[j].pc = "capSleep"
  /\ now >= jobs[j].wakeAt
  /\ jobIntervalStep(j, jobs[j].requests, jobs[j].wnow, now)
  /\ UNCHANGED serviceLog

\* the sleep for the minimum interval of job j is over, the request is sent
JobIntervalSleepDone(j) ==
  /\ jobs[j].pc = "intervalSleep"
  /\ now >= jobs[j].wakeAt
  /\ jobs' = [jobs EXCEPT ![j].pc = "calling", ![j].wakeAt = 0]
  /\ UNCHANGED serviceLog

\* the request of job j is answered, makeRequest calls recordRequest
JobRecordRequest(j) ==
  /\ jobs[j].pc = "calling"
  /\ jobs' = [jobs EXCEPT ![j].requests = Append(@, now),
                          ![j].lastRequestTime = now,
                          ![j].sent = @ + 1,
                          ![j].pc = "idle"]
  /\ serviceLog' = Append(serviceLog, now)

JobsConstruct ==
  \E j \in JobIds : JobConstruct(j) /\ UNCHANGED nonJobs
JobsWaitForReset ==
  \E j \in JobIds : JobWaitForReset(j) /\ UNCHANGED nonJobs
JobsCapSleepDone ==
  \E j \in JobIds : JobCapSleepDone(j) /\ UNCHANGED nonJobs
JobsIntervalSleepDone ==
  \E j \in JobIds :
    JobIntervalSleepDone(j) /\ UNCHANGED nonJobs
JobsRecordRequest ==
  \E j \in JobIds : JobRecordRequest(j) /\ UNCHANGED nonJobs

NextJobs ==
  \/ Tick
  \/ JobsConstruct
  \/ JobsWaitForReset
  \/ JobsCapSleepDone
  \/ JobsIntervalSleepDone
  \/ JobsRecordRequest

SpecJobs == InitJobs /\ [][NextJobs]_vars

\* requests of the service's log inside the window of windowMs starting at t
LoggedFrom(t) ==
  Cardinality({k \in 1..Len(serviceLog) :
                 serviceLog[k] >= t /\ serviceLog[k] < t + config.windowMs})

\* C11: two jobs running concurrently against the same service share one
\* rate budget: in any window of windowMs the requests recorded by both jobs
\* together number at most maxRequests.
C11_JobsShareOneBudget ==
  \A k \in 1..Len(serviceLog) : LoggedFrom(serviceLog[k]) <= config.maxRequests


\* ------------------------------------------- MondayAPI called request by request
\* private complexityBudget: number = 5000000
complexityBudget == 5000000

\* the minute the service's budget is counted over, in ms
MinuteMs == 60000

\* what the service charges for a request
QueryCosts == {100000, 2500000}

\* this.complexityUsed > this.complexityBudget * 0.9
nearBudget(used) == 10 * used > 9 * complexityBudget

\* makeRequest, lines 50-59: above 90% of the budget and before the reset time
\* the adapter sleeps until one second after it and forgets what it used
complexityGate(used, resetTime, t) ==
  IF nearBudget(used) /\ t < resetTime
    THEN [sleep |-> resetTime - t + 1000, used |-> 0]
    ELSE [sleep |-> 0, used |-> used]

\* the service's account at time t: a minute that is over is forgotten
accountAt(sv, t) == IF t >= sv.resetAt THEN NoService ELSE sv

\* the service charges a request answered at time t
serviceCharge(sv, t, cost) ==
  LET open == IF t >= sv.resetAt
                THEN [spent |-> 0, resetAt |-> t + MinuteMs]
                ELSE sv
  IN [open EXCEPT !.spent = @ + cost]

\* the body of the service's answer to a request charged `cost` at time t
serviceReply(sv, t, cost) ==
  [data |-> [create_item |-> [id |-> 1]],
   account_id |-> 1,
   extensions |->
     [complexity |->
        [query |-> cost,
         reset_in_x_seconds |-> (sv.resetAt - t) \div 1000]]]

\* GraphQLClient.request of graphql-request resolves with the data member of
\* the answer (rawRequest is the call that keeps extensions)
clientRequest(reply) == reply.data

NoComplexity == [query |-> 0, reset_in_x_seconds |-> 0]

\* lines 65-67: response?.extensions?.complexity of a response that has an
\* account_id or a data member
complexityIn(response) ==
  IF /\ ("account_id" \in DOMAIN response \/ "data" \in DOMAIN response)
     /\ "extensions" \in DOMAIN response
     /\ "complexity" \in DOMAIN response.extensions
    THEN response.extensions.complexity
    ELSE NoComplexity

\* a request issued at time t
issueAt(t) ==
  [at |-> t, spent |-> accountAt(service, t).spent,
   resetAt |-> accountAt(service, t).resetAt]

RECURSIVE sumOf(_)
sumOf(ds) == IF ds = <<>> THEN 0 ELSE Head(ds) + sumOf(Tail(ds))

\* the components an adapter call leaves alone
nonAdapter == <<bvars, mvars, jvars, pvars, fvars, svars, uvars, gvars, hvars, kvars, evars, wvars>>

InitAdapter ==
  /\ ReplicateIdle
  /\ FileSyncIdle
  /\ IdleButComplexity
  /\ complexityUsed = 0
  /\ complexityResetTime = 0
  /\ service = NoService
  /\ issues = <<>>
  /\ BatchIdle
  /\ MigrateIdle
  /\ JobsIdle
  /\ maxAttempts = MondayMaxAttempts
  /\ retryableErrors = MondayRetryable
  /\ attempt = 0
  /\ xpc = "idle"
  /\ returned = "none"
  /\ thrown = NoThrown
  /\ fnCalls = 0
  /\ fnErrors = <<>>
  /\ slept = <<>>
  /\ now = StartTime
  /\ config = MondayRateConfig
  /\ requests = <<>>
  /\ lastRequestTime = 0
  /\ rpc = "off"
  /\ wnow = 0
  /\ wakeAt = 0
  /\ probe = NoProbe
  /\ recorded = <<>>
  /\ starts = <<>>
  /\ apc = "idle"
  /\ traffic = NoTraffic

\* makeRequest, lines 47-61: waitForReset runs to its end (the clock moves on
\* by the time it sleeps), the complexity budget is checked, then
\* backoff.execute starts and issues the first attempt
AdapterMakeRequest ==
  /\ apc = "idle"
  /\ traffic.calls < MaxCalls
  /\ LET kept == filterWindow(requests, now, config.windowMs)
         capSleep == IF Len(kept) >= config.maxRequests
                       THEN Max(0, capWait(now, minOf(kept), config.windowMs))
                       ELSE 0
         waited == now + capSleep + intervalWait(now)
         gate == complexityGate(complexityUsed, complexityResetTime, waited)
     IN /\ requests' = kept
        /\ wnow' = now
        /\ now' = waited + gate.sleep
        /\ complexityUsed' = gate.used
        /\ issues' = Append(issues, issueAt(waited + gate.sleep))
  /\ UNCHANGED <<complexityResetTime, service>>
  /\ Execute
  /\ apc' = "request"
  /\ traffic' = [traffic EXCEPT !.waits = @ + 1, !.calls = @ + 1]
  /\ UNCHANGED <<config, lastRequestTime, rpc, wakeAt, probe, recorded,
                 starts>>
  /\ UNCHANGED nonAdapter

\* lines 62-79: an attempt of the request resolves; the complexity the
\* response carries is added to what the adapter used
AdapterAttemptResolves ==
  /\ apc = "request"
  /\ FnResolves
  /\ traffic' = [traffic EXCEPT !.attempts = @ + 1]
  /\ \E cost \in QueryCosts :
       LET charged == serviceCharge(service, now, cost)
           response == clientRequest(serviceReply(charged, now, cost))
           complexity == complexityIn(response)
       IN /\ service' = charged
          /\ IF complexity # NoComplexity
               THEN /\ complexityUsed' = complexityUsed + complexity.query
                    /\ complexityResetTime' =
                         now + complexity.reset_in_x_seconds * 1000
               ELSE UNCHANGED <<complexityUsed, complexityResetTime>>
  /\ UNCHANGED <<rvars, apc, issues, nonAdapter>>

\* an attempt rejects, execute rethrows the error
AdapterAttemptRejectsNotRetryable ==
  /\ apc = "request"
  /\ \E err \in MondayErrors : FnRejectsNotRetryable(err)
  /\ traffic' = [traffic EXCEPT !.attempts = @ + 1]
  /\ UNCHANGED <<rvars, apc, cvars, nonAdapter>>

\* the last attempt rejects, execute throws the terminal error
AdapterAttemptRejectsExhausted ==
  /\ apc = "request"
  /\ \E err \in MondayErrors : FnRejectsExhausted(err)
  /\ traffic' = [traffic EXCEPT !.attempts = @ + 1]
  /\ UNCHANGED <<rvars, apc, cvars, nonAdapter>>

\* an attempt rejects, execute sleeps and issues the next attempt; the
\* budget is not checked again
AdapterAttemptRejectsRetry ==
  /\ apc = "request"
  /\ \E err \in MondayErrors : FnRejectsRetry(err)
  /\ traffic' = [traffic EXCEPT !.attempts = @ + 1]
  /\ issues' = Append(issues, issueAt(now + sumOf(slept')))
  /\ UNCHANGED <<rvars, apc, complexityUsed, complexityResetTime, service,
                 nonAdapter>>

\* makeRequest, lines 82-83: execute returned, the request is recorded
AdapterRequestReturns ==
  /\ apc = "request"
  /\ xpc = "returned"
  /\ executeSettled
  /\ requests' = Append(requests, now)
  /\ lastRequestTime' = now
  /\ recorded' = Append(recorded, now)
  /\ traffic' = [traffic EXCEPT !.records = @ + 1]
  /\ apc' = "idle"
  /\ UNCHANGED <<now, config, rpc, wnow, wakeAt, probe, starts>>
  /\ UNCHANGED <<cvars, nonAdapter>>

\* makeRequest, line 61: execute threw, makeRequest rejects at once
AdapterRequestThrows ==
  /\ apc = "request"
  /\ xpc = "thrown"
  /\ executeSettled
  /\ apc' = "idle"
  /\ UNCHANGED <<rvars, traffic, cvars, nonAdapter>>

\* addFileToColumn, lines 349-383: the form is posted with axios.post
AdapterAddFileToColumn ==
  /\ apc = "idle"
  /\ traffic.calls < MaxCalls
  /\ apc' = "upload"
  /\ traffic' = [traffic EXCEPT !.attempts = @ + 1, !.calls = @ + 1]
  /\ issues' = Append(issues, issueAt(now))
  /\ UNCHANGED <<xvars, rvars, complexityUsed, complexityResetTime, service,
                 nonAdapter>>

\* addFileToColumn, lines 392-399: the post is answered; the asset is
\* returned or an error is thrown
AdapterUploadSettles ==
  /\ apc = "upload"
  /\ apc' = "idle"
  /\ UNCHANGED <<xvars, rvars, traffic, cvars, nonAdapter>>

NextAdapter ==
  \/ AdapterMakeRequest
  \/ AdapterAttemptResolves
  \/ AdapterAttemptRejectsNotRetryable
  \/ AdapterAttemptRejectsExhausted
  \/ AdapterAttemptRejectsRetry
  \/ AdapterRequestReturns
  \/ AdapterRequestThrows
  \/ AdapterAddFileToColumn
  \/ AdapterUploadSettles

SpecAdapter == InitAdapter /\ [][NextAdapter]_vars

\* C12: every remote call attempt of the adapter (every attempt inside the
\* backoff wrapper, failed or not, and every file upload) is preceded by a
\* waitForReset of its own, and once the adapter is at rest every attempt has
\* been matched by exactly one recordRequest.
C12_EveryAttemptGoverned ==
  /\ traffic.attempts <= traffic.waits
  /\ apc = "idle" => traffic.records = traffic.attempts


\* --------------------------------------------- ListReplicator.replicate
MaxFields == 2        \* most custom fields on the source list
MaxSourceTasks == 2   \* most tasks on the source list

ReplicationModes == {"full", "structure_only", "data_only"}

\* the errors a setup step rejects with, the error of a column creation, and
\* the error of evaluating `updates.started_at` inside the initializer of
\* `updates`: a ReferenceError where `const` is kept by the build, a
\* TypeError where it is lowered to `var`
SetupErrors == {"list analysis failed", "board creation failed"}
ColumnError == "column creation failed"
StatusErrors == {"ReferenceError", "TypeError"}

\* the components a replication leaves alone
nonReplicate == <<bvars, xvars, rvars, mvars, jvars, avars, fvars, svars, uvars, gvars, hvars, kvars, cvars, evars, wvars>>

\* the status written by updateReplicationStatus(status, _, errorMessage)
updateReplicationStatusBad(row, status, errorMessage) ==
  [row EXCEPT !.status = IF status = "failed" THEN "mapping" ELSE status,
              !.error_message =
                 IF errorMessage # "none" THEN errorMessage ELSE @]

updateReplicationStatus(row, status, errorMessage) ==
  [row EXCEPT !.status = status,
              !.error_message =
                 IF errorMessage # "none" THEN errorMessage ELSE @]

\* building `updates` reads `updates.started_at` exactly when the status is
\* 'migrating' (the && before it short-circuits otherwise)
statusWriteThrows(status) == status = "migrating"

\* the row after a status write, and the history of statuses written
logStatus(log, row) ==
  [log EXCEPT !.statuses = Append(@, row.status)]

\* where replicate goes once the structure is in place (line 87)
afterStructureAny(mode) == "migrating"

afterStructure(mode) ==
  IF mode # "structure_only" THEN "migrating" ELSE "completing"

\* where replicate goes once the board is created (lines 80-83): the mapping
\* loop runs unless the mode is data_only, and has a body per field
afterBoard(mode, nFields) ==
  IF mode # "data_only" /\ nFields > 0 THEN "fields" ELSE afterStructure(mode)

\* the mapping loop after field i: the next field, or out of the loop
afterField(r, i) ==
  [r EXCEPT !.fieldIndex = i + 1,
            !.pc = IF i + 1 > r.customFields
                   THEN afterStructure(r.mode) ELSE "fields"]

\* the catch of the mapping loop: log and continue with the next field
columnCatchRethrow(r, i) == [r EXCEPT !.pc = "thrown"]

columnCatch(r, i) == afterField(r, i)

\* the source list: its custom fields, its tasks as getListTasks returns them
\* (subtasks included), and how many of these are direct children of a
\* top-level task of the list
SourceLists ==
  { s \in [fields : 0..MaxFields, tasks : 0..MaxSourceTasks,
           children : 0..MaxSourceTasks] :
      s.children = 0 \/ s.children < s.tasks }

InitReplicate ==
  /\ AddedIdle
  /\ BatchIdle
  /\ BackoffIdle
  /\ RateIdle
  /\ MigrateIdle
  /\ JobsIdle
  /\ AdapterIdle
  /\ FileSyncIdle
  /\ replication = NoRow
  /\ replicator = [NoReplicator EXCEPT !.pc = "new"]
  /\ source \in SourceLists
  /\ board = NoBoard
  /\ repLog = NoRepLog

\* POST /api/replication/start: insert the row with status 'mapping', build
\* the ListReplicator and start replicate without awaiting it
RouteStartReplication ==
  /\ replicator.pc = "new"
  /\ \E mode \in ReplicationModes :
       replicator' = [replicator EXCEPT !.pc = "start", !.mode = mode]
  /\ replication' = [NoRow EXCEPT !.status = "mapping"]
  /\ repLog' = logStatus(repLog, replication')
  /\ UNCHANGED <<source, board, nonReplicate>>

\* replicate, line 57
ReplicateCreating ==
  /\ replicator.pc = "start"
  /\ ~statusWriteThrows("creating")
  /\ replication' = updateReplicationStatus(replication, "creating", "none")
  /\ repLog' = logStatus(repLog, replication')
  /\ replicator' = [replicator EXCEPT !.pc = "analyze"]
  /\ UNCHANGED <<source, board, nonReplicate>>

\* a list analysis that fetches the custom fields in every mode
analysisCallsAll(mode) == {"getList", "getCustomFields"}

\* the remote calls of the list analysis (lines 61-64)
analysisCalls(mode) ==
  IF mode # "data_only" THEN {"getList", "getCustomFields"} ELSE {"getList"}

\* the calls of the list analysis in the order of lines 61-64
inOrder(calls) ==
  SelectSeq(<<"getList", "getCustomFields">>, LAMBDA c : c \in calls)

\* lines 61-64: getList and, unless data_only, getCustomFields resolve
ReplicateAnalyzeResolves ==
  /\ replicator.pc = "analyze"
  /\ replicator' =
       [replicator EXCEPT !.pc = "board",
          !.customFields =
             IF replicator.mode # "data_only" THEN source.fields ELSE 0]
  /\ repLog' = [repLog EXCEPT
                  !.calls = @ \cup analysisCalls(replicator.mode),
                  !.trace = @ \o inOrder(analysisCalls(replicator.mode))]
  /\ UNCHANGED <<replication, source, board, nonReplicate>>

\* lines 61-64 reject: the catch of replicate (114-120) writes 'failed' with
\* the message and rethrows
ReplicateAnalyzeRejects ==
  /\ replicator.pc = "analyze"
  /\ replication' =
       updateReplicationStatus(replication, "failed", "list analysis failed")
  /\ repLog' = [logStatus(repLog, replication') EXCEPT
                  !.calls = @ \cup {"getList"},
                  !.trace = Append(@, "getList"), !.setupError = TRUE]
  /\ replicator' = [replicator EXCEPT !.pc = "thrown"]
  /\ UNCHANGED <<source, board, nonReplicate>>

\* lines 68-76: createBoard resolves, the board id is stored
ReplicateCreateBoardResolves ==
  /\ replicator.pc = "board"
  /\ board' = [board EXCEPT !.created = TRUE]
  /\ replication' = [replication EXCEPT !.monday_board_id = 1]
  /\ replicator' =
       [replicator EXCEPT !.fieldIndex = 1,
          !.pc = afterBoard(replicator.mode, replicator.customFields)]
  /\ repLog' = [repLog EXCEPT !.calls = @ \cup {"createBoard"},
                              !.trace = Append(@, "createBoard")]
  /\ UNCHANGED <<source, nonReplicate>>

\* line 68 rejects: catch of replicate
ReplicateCreateBoardRejects ==
  /\ replicator.pc = "board"
  /\ replication' =
       updateReplicationStatus(replication, "failed", "board creation failed")
  /\ repLog' = [logStatus(repLog, replication') EXCEPT
                  !.calls = @ \cup {"createBoard"},
                  !.trace = Append(@, "createBoard"), !.setupError = TRUE]
  /\ replicator' = [replicator EXCEPT !.pc = "thrown"]
  /\ UNCHANGED <<source, board, nonReplicate>>

\* createFieldMappings, lines 135-169: the column of the current field is
\* created, the field_mappings row inserted, the mapping pushed
ReplicateCreateColumnResolves ==
  /\ replicator.pc = "fields"
  /\ LET i == replicator.fieldIndex IN
       /\ board' = [board EXCEPT !.columns = Append(@, i)]
       /\ replicator' =
            afterField([replicator EXCEPT !.mappings = Append(@, i)], i)
       /\ repLog' = [repLog EXCEPT !.calls = @ \cup {"createColumn"},
                                   !.trace = Append(@, "createColumn"),
                                   !.attempted = Append(@, i)]
  /\ UNCHANGED <<replication, source, nonReplicate>>

\* createFieldMappings, lines 141-146 reject: caught at 170-173
ReplicateCreateColumnRejects ==
  /\ replicator.pc = "fields"
  /\ LET i == replicator.fieldIndex IN
       /\ replicator' = columnCatch(replicator, i)
       /\ repLog' = [repLog EXCEPT !.calls = @ \cup {"createColumn"},
                                   !.trace = Append(@, "createColumn"),
                                   !.attempted = Append(@, i),
                                   !.columnError = TRUE]
  /\ UNCHANGED <<replication, source, board, nonReplicate>>

\* line 88: updateReplicationStatus('migrating') throws while building
\* `updates` (line 417), before anything is written; the catch of replicate
\* writes 'failed' with the message and rethrows
ReplicateMigratingThrows ==
  /\ replicator.pc = "migrating"
  /\ statusWriteThrows("migrating")
  /\ \E e \in StatusErrors :
       replication' = updateReplicationStatus(replication, "failed", e)
  /\ repLog' = logStatus(repLog, replication')
  /\ replicator' = [replicator EXCEPT !.pc = "thrown"]
  /\ UNCHANGED <<source, board, nonReplicate>>

\* lines 108-112: 'completed' is written and the result returned
ReplicateCompleted ==
  /\ replicator.pc = "completing"
  /\ ~statusWriteThrows("completed")
  /\ replication' = updateReplicationStatus(replication, "completed", "none")
  /\ repLog' = logStatus(repLog, replication')
  /\ replicator' = [replicator EXCEPT !.pc = "returned"]
  /\ UNCHANGED <<source, board, nonReplicate>>

NextReplicate ==
  \/ RouteStartReplication
  \/ ReplicateCreating
  \/ ReplicateAnalyzeResolves
  \/ ReplicateAnalyzeRejects
  \/ ReplicateCreateBoardResolves
  \/ ReplicateCreateBoardRejects
  \/ ReplicateCreateColumnResolves
  \/ ReplicateCreateColumnRejects
  \/ ReplicateMigratingThrows
  \/ ReplicateCompleted

SpecReplicate == InitReplicate /\ [][NextReplicate]_vars

ReplicateEnded == replicator.pc \in {"returned", "thrown"}

\* the status changes the job's life cycle allows
StatusStepAllowed(a, b, mode) ==
  \/ a = "mapping" /\ b = "creating"
  \/ a = "creating" /\ b = "migrating"
  \/ a = "migrating" /\ b = "completed"
  \/ a = "creating" /\ b = "completed" /\ mode = "structure_only"
  \/ a \in {"mapping", "creating", "migrating"} /\ b = "failed"

\* C13: the status of a replication job only moves forward: it is inserted
\* as mapping, then each status written follows the one before it along
\* mapping -> creating -> migrating -> completed (creating -> completed in
\* structure_only mode) or is failed, and nothing is written after completed
\* or failed; the row always carries the last status written.
C13_StatusOnlyMovesForward ==
  LET w == repLog.statuses IN
    /\ w # <<>> => w[1] = "mapping" /\ replication.status = w[Len(w)]
    /\ \A i \in 1..(Len(w) - 1) :
         StatusStepAllowed(w[i], w[i + 1], replicator.mode)

\* a structure_only job that ran to completion
C13_Witness ==
  /\ replicator.pc = "returned"
  /\ repLog.statuses = <<"mapping", "creating", "completed">>

\* C14: a job in full or data_only mode in which every remote call succeeds
\* reaches migrating, fetches the source tasks, records total_tasks = N,
\* creates one item per task and ends completed.
C14_FullRunCompletes ==
  ( /\ ReplicateEnded
    /\ replicator.mode \in {"full", "data_only"}
    /\ ~repLog.setupError
    /\ ~repLog.columnError )
  => /\ \E i \in 1..Len(repLog.statuses) : repLog.statuses[i] = "migrating"
     /\ "getListTasks" \in repLog.calls
     /\ replication.total_tasks = source.tasks
     /\ board.items = source.tasks
     /\ replication.status = "completed"

\* C15: a structure_only job on a list with F custom fields in which every
\* remote call succeeds creates exactly F columns, creates no item and no
\* sub-item, fetches no source task and ends completed with total_tasks = 0.
C15_StructureOnlyCreatesColumnsOnly ==
  ( /\ ReplicateEnded
    /\ replicator.mode = "structure_only"
    /\ ~repLog.setupError
    /\ ~repLog.columnError )
  => /\ board.columns = [i \in 1..source.fields |-> i]
     /\ board.items = 0
     /\ repLog.calls \cap {"getListTasks", "createItem", "createSubitem"} = {}
     /\ replication.status = "completed"
     /\ replication.total_tasks = 0

\* a finished structure_only job on a list that has custom fields
C15_Witness ==
  /\ replicator.pc = "returned"
  /\ replicator.mode = "structure_only"
  /\ source.fields >= 2
  /\ Len(board.columns) = source.fields

\* C16: in createFieldMappings a field whose column creation fails does not
\* stop the loop and does not fail the job: once the loop is left every field
\* has been attempted, in order; the mappings returned are exactly the fields
\* whose column was created, in field order; the job's error is never the
\* column error, and a structure_only job without a setup error still ends
\* completed.
C16_ColumnFailureIsSkipped ==
  /\ replicator.mappings = board.columns
  /\ \A i, j \in 1..Len(replicator.mappings) :
       i < j => replicator.mappings[i] < replicator.mappings[j]
  /\ ( /\ replicator.pc \in {"migrating", "completing", "returned", "thrown"}
       /\ ~repLog.setupError
       /\ replicator.mode # "data_only" )
     => repLog.attempted = [i \in 1..source.fields |-> i]
  /\ replication.error_message # ColumnError
  /\ ( /\ ReplicateEnded
       /\ replicator.mode = "structure_only"
       /\ ~repLog.setupError )
     => replication.status = "completed"

\* the first field's column failed, the second one's was created
C16_Witness ==
  /\ ReplicateEnded
  /\ repLog.columnError
  /\ repLog.attempted = <<1, 2>>
  /\ replicator.mappings = <<2>>

\* C17: only an error of a setup step (list analysis, board creation) moves
\* the job to failed.
C17_OnlySetupErrorsFail ==
  replication.status = "failed" => repLog.setupError


\* ------------------------------------------------ task_mappings rows
\* the items this run created for a task
ItemsCreatedFor(t) ==
  {k \in 1..Len(mondayItems) : mondayItems[k] = t}

\* C18: a TaskMapping row that carries a target item id keeps it: every step
\* of a migration, retries of a task and a run after an earlier run included,
\* leaves every existing row in place with the same source task and the same
\* target item id; rows are only ever added.
C18_MappingRowsAreNeverRewritten ==
  [][ /\ Len(taskMappings') >= Len(taskMappings)
      /\ \A k \in 1..Len(taskMappings) :
           /\ taskMappings'[k].clickup_task_id =
                taskMappings[k].clickup_task_id
           /\ taskMappings'[k].monday_item_id = taskMappings[k].monday_item_id
    ]_vars

\* a task that already had its row got another item created for it: on a
\* retry within the run, or in a run after the one that wrote the row
C18_Witness ==
  \E t \in TaskIds :
    /\ rowsOf(taskMappings, t) # {}
    /\ \/ Cardinality(ItemsCreatedFor(t)) >= 2
       \/ /\ ItemsCreatedFor(t) # {}
          /\ \E k \in rowsOf(taskMappings, t) :
               taskMappings[k].monday_item_id = EarlierItem


\* ------------------------------------------- FileSyncEngine.syncTaskFiles
\* names are sequences of characters; "A" and "F" are the upper-case ones
ItemNames ==
  {<<"a">>, <<"A">>, <<"b">>, <<"a", "b">>, <<"A", "b">>, <<"b", "a">>}

\* the boards tried: up to two items, in board order
Boards ==
  {<<>>} \cup {<<n>> : n \in ItemNames}
         \cup {<<n, m>> : n \in ItemNames, m \in ItemNames}

\* attachment sizes in MB, and the default limit of validateFile
MaxSizeMB == 500
Attachments == [title : {<<"f">>}, size : {1, 600}]

\* getTasksWithAttachments keeps the tasks that have an attachment
AttachmentLists ==
  {<<a>> : a \in Attachments}
    \cup {<<a, b>> : a \in Attachments, b \in Attachments}

\* the components a file sync leaves alone
nonFileSync == <<bvars, xvars, rvars, mvars, jvars, avars, pvars, svars, uvars, gvars, hvars, kvars, cvars, evars, wvars>>

toLowerCase(name) ==
  [i \in 1..Len(name) |->
     IF name[i] = "A" THEN "a" ELSE IF name[i] = "F" THEN "f" ELSE name[i]]

\* String.prototype.includes on names
nameIncludes(name, part) ==
  \E k \in 0..(Len(name) - Len(part)) :
    SubSeq(name, k + 1, k + Len(part)) = part

\* the positions 1..n in order
Positions(n) == [i \in 1..n |-> i]

\* MondayAPI.searchItemsByName: the items whose lower-cased name includes the
\* lower-cased query, in board order (items are named by their position)
searchItemsByName(items, query) ==
  LET hit(k) == nameIncludes(toLowerCase(items[k]), toLowerCase(query))
  IN SelectSeq(Positions(Len(items)), hit)

\* Array.prototype.find over positions: the first one in the set, 0 if none
firstOf(S) == IF S = {} THEN 0 ELSE CHOOSE k \in S : \A l \in S : k <= l

\* FindMatchingItems for one task: the first item with the same lower-cased
\* name, else the first one whose name includes or is included in the task's
findMatch(items, name) ==
  LET exact == {k \in 1..Len(items) :
                  toLowerCase(items[k]) = toLowerCase(name)}
      fuzzy == {k \in 1..Len(items) :
                  \/ nameIncludes(toLowerCase(items[k]), toLowerCase(name))
                  \/ nameIncludes(toLowerCase(name), toLowerCase(items[k]))}
  IN IF exact # {} THEN firstOf(exact) ELSE firstOf(fuzzy)

\* the predicate of the find at lines 19-23
sameNameAndSizeAny(asset, attachment) ==
  toLowerCase(asset.name) = toLowerCase(attachment.title)

sameNameAndSize(asset, attachment) ==
  /\ toLowerCase(asset.name) = toLowerCase(attachment.title)
  /\ asset.file_size = attachment.size

\* DuplicateChecker.checkByNameAndSize: the first asset the predicate holds for
checkByNameAndSize(attachment, assets) ==
  LET hits == {k \in 1..Len(assets) : sameNameAndSize(assets[k], attachment)}
  IN IF hits # {}
     THEN [set |-> TRUE, isDuplicate |-> TRUE,
           matchedAsset |-> <<assets[firstOf(hits)]>>]
     ELSE [set |-> TRUE, isDuplicate |-> FALSE, matchedAsset |-> <<>>]

\* the assets of an item returned by searchItemsByName: the query of getItems
\* asks for no assets, so `mondayItem.assets || []` is empty
existingAssets(item) == <<>>

\* DuplicateChecker.check without a buffer: checkByNameAndSize decides
isDuplicate(attachment, assets) ==
  checkByNameAndSize(attachment, assets).isDuplicate

\* DuplicateChecker.validateFile without options: only the size is checked
validateFile(attachment) == attachment.size <= MaxSizeMB

\* transferAttachment goes on to the download
downloads(attachment) ==
  /\ validateFile(attachment)
  /\ ~( /\ fileSync.skipDuplicates
        /\ isDuplicate(attachment, existingAssets(fileSync.picked)) )

InitFileSync ==
  /\ IdleButAssets
  /\ itemAssets \in {<<>>, <<[name |-> <<"F">>, file_size |-> 1]>>}
  /\ BatchIdle
  /\ BackoffIdle
  /\ RateIdle
  /\ MigrateIdle
  /\ JobsIdle
  /\ AdapterIdle
  /\ ReplicateIdle
  /\ boardItems \in Boards
  /\ syncTask \in [name : ItemNames, attachments : AttachmentLists]
  /\ fileSync \in {[NoFileSync EXCEPT !.pc = "search", !.skipDuplicates = d] :
                     d \in BOOLEAN}
  /\ transferRecords = <<>>
  /\ matched = 0
  /\ outcomes = <<>>

\* syncTaskFiles, lines 104-116: the search resolves; without a hit the call
\* returns, otherwise the first hit is used
SyncTaskFilesSearch ==
  /\ fileSync.pc = "search"
  /\ LET hits == searchItemsByName(boardItems, syncTask.name) IN
       fileSync' =
         IF Len(hits) = 0
         THEN [fileSync EXCEPT !.pc = "returned", !.searched = TRUE]
         ELSE [fileSync EXCEPT !.pc = "attachments", !.searched = TRUE,
                               !.picked = hits[1], !.att = 1]
  /\ UNCHANGED <<boardItems, syncTask, transferRecords, matched, outcomes>>
  /\ UNCHANGED nonFileSync

\* the search rejects: syncTaskFiles throws into the catch of syncFiles
SyncTaskFilesSearchRejects ==
  /\ fileSync.pc = "search"
  /\ fileSync' = [fileSync EXCEPT !.pc = "threw"]
  /\ UNCHANGED <<boardItems, syncTask, transferRecords, matched, outcomes>>
  /\ UNCHANGED nonFileSync

\* transferAttachment, lines 151-155: validation fails, the call returns
TransferInvalid ==
  /\ fileSync.pc = "attachments"
  /\ fileSync.att <= Len(syncTask.attachments)
  /\ ~validateFile(syncTask.attachments[fileSync.att])
  /\ outcomes' = Append(outcomes, "invalid")
  /\ fileSync' = [fileSync EXCEPT !.att = @ + 1]
  /\ UNCHANGED <<boardItems, syncTask, transferRecords, matched>>
  /\ UNCHANGED nonFileSync

\* transferAttachment, line 171: downloadAttachment rejects; syncTaskFiles
\* logs and rethrows (129-131), leaving the loop
TransferDownloadRejects ==
  /\ fileSync.pc = "attachments"
  /\ fileSync.att <= Len(syncTask.attachments)
  /\ downloads(syncTask.attachments[fileSync.att])
  /\ outcomes' = Append(outcomes, "download failed")
  /\ fileSync' = [fileSync EXCEPT !.pc = "threw"]
  /\ UNCHANGED <<boardItems, syncTask, transferRecords, matched>>
  /\ UNCHANGED nonFileSync

\* transferAttachment, lines 171-178: the download resolves; the item came
\* from getItems, whose query asks for no board, so `mondayItem.board.id`
\* throws a TypeError before the upload; syncTaskFiles rethrows
TransferDownloadResolves ==
  /\ fileSync.pc = "attachments"
  /\ fileSync.att <= Len(syncTask.attachments)
  /\ downloads(syncTask.attachments[fileSync.att])
  /\ outcomes' = Append(outcomes, "upload failed")
  /\ fileSync' = [fileSync EXCEPT !.pc = "threw"]
  /\ UNCHANGED <<boardItems, syncTask, transferRecords, matched>>
  /\ UNCHANGED nonFileSync

\* syncTaskFiles, lines 134-138: the loop is over, the optional link is added
\* (its failure is swallowed) and the call returns
SyncTaskFilesReturns ==
  /\ fileSync.pc = "attachments"
  /\ fileSync.att > Len(syncTask.attachments)
  /\ fileSync' = [fileSync EXCEPT !.pc = "returned"]
  /\ UNCHANGED <<boardItems, syncTask, transferRecords, matched, outcomes>>
  /\ UNCHANGED nonFileSync

\* findMatchingItems called for the task
FindMatchingItems ==
  /\ fileSync.pc # "off"
  /\ matched = 0
  /\ matched' = findMatch(boardItems, syncTask.name)
  /\ UNCHANGED <<boardItems, syncTask, fileSync, transferRecords, outcomes>>
  /\ UNCHANGED nonFileSync

NextFileSync ==
  \/ SyncTaskFilesSearch
  \/ SyncTaskFilesSearchRejects
  \/ TransferInvalid
  \/ TransferDownloadRejects
  \/ TransferDownloadResolves
  \/ SyncTaskFilesReturns
  \/ FindMatchingItems

SpecFileSync == InitFileSync /\ [][NextFileSync]_vars

\* the items named like the task, and the items whose name contains or is
\* contained in the task's, case ignored
ExactMatches ==
  {k \in 1..Len(boardItems) :
     toLowerCase(boardItems[k]) = toLowerCase(syncTask.name)}

FuzzyMatches ==
  {k \in 1..Len(boardItems) :
     \/ nameIncludes(toLowerCase(boardItems[k]), toLowerCase(syncTask.name))
     \/ nameIncludes(toLowerCase(syncTask.name), toLowerCase(boardItems[k]))}

\* C19: once file sync has searched the board for a task, the item it uses is
\* one named like the task (case ignored) whenever the board has such an
\* item; when it has none, the item used is one whose name contains or is
\* contained in the task's name, if the board has one; no other item is used.
C19_ExactMatchPreferred ==
  fileSync.searched =>
    /\ ExactMatches # {} => fileSync.picked \in ExactMatches
    /\ (ExactMatches = {} /\ FuzzyMatches # {}) =>
         fileSync.picked \in FuzzyMatches
    /\ fileSync.picked # 0 => fileSync.picked \in FuzzyMatches

\* the file_transfers status the outcome of an attachment calls for
RecordFor(outcome) ==
  IF outcome = "invalid" THEN "skipped" ELSE "failed"

\* C20: every attachment that transferAttachment has handled on a matched
\* task has exactly one row in file_transfers, with status skipped when
\* validation rejected it and failed when its download or upload failed.
C20_OneRecordPerAttachment ==
  \A i \in 1..Len(outcomes) :
    LET rows == {k \in 1..Len(transferRecords) :
                   transferRecords[k].attachment = i}
    IN /\ Cardinality(rows) = 1
       /\ \A k \in rows : transferRecords[k].status = RecordFor(outcomes[i])


\* ------------------------------------------------ FileSyncEngine.syncFiles
\* the lists tried: up to two tasks that have attachments
SyncTasks ==
  [name : {<<"a">>, <<"b">>},
   attachments : {<<a>> : a \in Attachments}
                   \cup {<<[title |-> <<"f">>, size |-> 600],
                           [title |-> <<"f">>, size |-> 1]>>}]

SyncLists ==
  {<<>>} \cup {<<t>> : t \in SyncTasks}
         \cup {<<t, u>> : t \in SyncTasks, u \in SyncTasks}

SyncBoards == {<<>>, <<<<"a">>>>, <<<<"a">>, <<"b">>>>}

\* the components syncFiles leaves alone
nonSync == <<bvars, xvars, rvars, mvars, jvars, avars, pvars, uvars, gvars, hvars, kvars, cvars, evars, wvars>>

\* FileSyncEngine.updateProgress(totalTasks, processedTasks)
syncProgressRow(total, processed) ==
  [total_tasks |-> total, processed_tasks |-> processed,
   status |-> IF processed < total THEN "running" ELSE "completed"]

\* result.errors.push for a task (or 'N/A' for the whole sync)
pushError(result, taskId) ==
  [result EXCEPT !.success = FALSE, !.errors = Append(@, taskId)]

InitSync ==
  /\ BatchIdle
  /\ BackoffIdle
  /\ RateIdle
  /\ MigrateIdle
  /\ JobsIdle
  /\ AdapterIdle
  /\ ReplicateIdle
  /\ IdleButSync
  /\ boardItems \in SyncBoards
  /\ syncTask = [name |-> <<>>, attachments |-> <<>>]
  /\ fileSync \in {[NoFileSync EXCEPT !.skipDuplicates = d] : d \in BOOLEAN}
  /\ transferRecords = <<>>
  /\ matched = 0
  /\ outcomes = <<>>
  /\ syncList \in SyncLists
  /\ sync = [pc |-> "start", index |-> 0, fetched |-> FALSE]
  /\ syncJob = NoSyncJob
  /\ syncResult = NoSyncResult

\* the loop of syncFiles moves to task i, or returns past the last one
enterTask(i) ==
  IF i <= Len(syncList)
  THEN /\ sync' = [sync EXCEPT !.pc = "loop", !.index = i, !.fetched = TRUE]
       /\ syncTask' = syncList[i]
       /\ fileSync' = [fileSync EXCEPT !.pc = "search", !.searched = FALSE,
                                       !.picked = 0, !.att = 0]
  ELSE /\ sync' = [sync EXCEPT !.pc = "returned", !.index = i,
                               !.fetched = TRUE]
       /\ UNCHANGED <<syncTask, fileSync>>

\* syncFiles, lines 50-58: the tasks with attachments are fetched, the
\* progress row is written with 0 processed, the loop starts
SyncFilesFetch ==
  /\ sync.pc = "start"
  /\ syncJob' = syncProgressRow(Len(syncList), 0)
  /\ enterTask(1)
  /\ UNCHANGED <<boardItems, transferRecords, matched, outcomes, syncList,
                 syncResult>>
  /\ UNCHANGED nonSync

\* getTasksWithAttachments rejects: the outer catch (81-93) records the error
\* in the result and returns it
SyncFilesFetchRejects ==
  /\ sync.pc = "start"
  /\ syncResult' = pushError(syncResult, 0)
  /\ sync' = [sync EXCEPT !.pc = "returned"]
  /\ UNCHANGED <<fvars, syncList, syncJob>>
  /\ UNCHANGED nonSync

\* lines 61-65: syncTaskFiles returned; the task's attachments are added to
\* filesTransferred and the progress row is written
SyncFilesTaskReturned ==
  /\ sync.pc = "loop"
  /\ fileSync.pc = "returned"
  /\ syncResult' =
       [syncResult EXCEPT
          !.filesTransferred = @ + Len(syncTask.attachments)]
  /\ syncJob' = syncProgressRow(Len(syncList), sync.index)
  /\ enterTask(sync.index + 1)
  /\ UNCHANGED <<boardItems, transferRecords, matched, outcomes, syncList>>
  /\ UNCHANGED nonSync

\* lines 66-77: syncTaskFiles threw; the catch records the error in the result
\* and the loop goes on
SyncFilesTaskThrew ==
  /\ sync.pc = "loop"
  /\ fileSync.pc = "threw"
  /\ syncResult' = pushError(syncResult, sync.index)
  /\ enterTask(sync.index + 1)
  /\ UNCHANGED <<boardItems, transferRecords, matched, outcomes, syncList,
                 syncJob>>
  /\ UNCHANGED nonSync

NextSync ==
  \/ SyncFilesFetch
  \/ SyncFilesFetchRejects
  \/ SyncTaskFilesSearch
  \/ SyncTaskFilesSearchRejects
  \/ TransferInvalid
  \/ TransferDownloadRejects
  \/ TransferDownloadResolves
  \/ SyncTaskFilesReturns
  \/ SyncFilesTaskReturned
  \/ SyncFilesTaskThrew

SpecSync == InitSync /\ [][NextSync]_vars

\* the tasks whose handling has ended
TasksDone ==
  IF sync.pc = "loop" THEN sync.index - 1
  ELSE IF sync.pc = "returned" /\ sync.fetched THEN Len(syncList) ELSE 0

\* C21: the job row carries the progress of file sync after every task, failed
\* or not: while the loop runs the persisted processed count is the number of
\* tasks handled so far, it never exceeds the total, and it equals the total
\* when syncFiles returns after fetching the tasks.
C21_ProgressAfterEveryTask ==
  /\ syncJob.processed_tasks <= syncJob.total_tasks
  /\ sync.fetched =>
       /\ syncJob.total_tasks = Len(syncList)
       /\ syncJob.processed_tasks = TasksDone


\* the attachments handled so far whose handling ended in one of the given ways
Ended(ways) == {i \in 1..Len(outcomes) : outcomes[i] \in ways}

\* C23: when syncFiles returns, filesTransferred is the number of attachments
\* that were uploaded, filesSkipped the number of attachments that were
\* skipped (by validation or as duplicates), and errors holds at most one
\* entry per task.
C23_ResultCountsWhatHappened ==
  sync.pc = "returned" =>
    /\ syncResult.filesTransferred = Cardinality(Ended({"uploaded"}))
    /\ syncResult.filesSkipped = Cardinality(Ended({"invalid", "duplicate"}))
    /\ \A i, j \in 1..Len(syncResult.errors) :
         i # j => syncResult.errors[i] # syncResult.errors[j]


\* --------------------------------- DuplicateChecker.checkByNameAndSize
\* the components a pure function leaves alone
nonPure == <<bvars, xvars, rvars, mvars, jvars, avars, pvars, fvars, svars, gvars, hvars, kvars, cvars, evars, wvars>>

\* file names and sizes tried: names differing in case only or in a letter,
\* sizes one unit apart
FileNames == {<<"a">>, <<"A">>, <<"b">>}
FileSizes == {1, 2}
Candidates == [title : FileNames, size : FileSizes]
Assets == [name : FileNames, file_size : FileSizes]
AssetLists ==
  {<<>>} \cup {<<a>> : a \in Assets} \cup {<<a, b>> : a \in Assets, b \in Assets}

InitDuplicate ==
  /\ BatchIdle
  /\ BackoffIdle
  /\ RateIdle
  /\ MigrateIdle
  /\ JobsIdle
  /\ AdapterIdle
  /\ ReplicateIdle
  /\ FileSyncIdle
  /\ IdleButPure
  /\ pureArgs \in {<<c, l>> : c \in Candidates, l \in AssetLists}
  /\ pureResult = NoAnswer

CheckByNameAndSize ==
  /\ ~pureResult.set
  /\ pureResult' = checkByNameAndSize(pureArgs[1], pureArgs[2])
  /\ UNCHANGED <<pureArgs, nonPure>>

NextDuplicate == CheckByNameAndSize

SpecDuplicate == InitDuplicate /\ [][NextDuplicate]_vars

\* C24: checkByNameAndSize answers isDuplicate = true exactly when some asset
\* has the candidate's name, case ignored, and the candidate's size; it then
\* hands back one such asset, and hands back none otherwise.
C24_DuplicateIffSameNameAndSize ==
  pureResult.set =>
    LET c == pureArgs[1]
        l == pureArgs[2]
        same == {k \in 1..Len(l) :
                   /\ toLowerCase(l[k].name) = toLowerCase(c.title)
                   /\ l[k].file_size = c.size}
    IN /\ pureResult.isDuplicate <=> same # {}
       /\ pureResult.isDuplicate =>
            \E k \in same : pureResult.matchedAsset = <<l[k]>>
       /\ ~pureResult.isDuplicate => pureResult.matchedAsset = <<>>

\* the first asset has the candidate's name in another case and a size one
\* unit off, the second one matches in name and size
C24_Witness ==
  /\ pureResult.set
  /\ pureResult.isDuplicate
  /\ pureArgs[1] = [title |-> <<"a">>, size |-> 1]
  /\ pureArgs[2] = <<[name |-> <<"A">>, file_size |-> 2],
                     [name |-> <<"A">>, file_size |-> 1]>>


\* ------------------------------------------------ FieldMapper.mapFieldType
\* typeMap, lines 18-34
typeMap ==
  [text |-> "text", short_text |-> "text", textarea |-> "long-text",
   number |-> "numbers", currency |-> "numbers", date |-> "date",
   checkbox |-> "checkbox", drop_down |-> "status", labels |-> "tags",
   email |-> "email", phone |-> "phone", url |-> "link", users |-> "people",
   rating |-> "rating", location |-> "location"]

\* the members every object literal inherits from Object.prototype whose name
\* is its own lower-case form, and what reading them yields
Inherited ==
  [constructor |-> "function Object", __proto__ |-> "Object.prototype"]

\* spellings with upper-case letters among the types tried
Spellings == [NUMBER |-> "number", Drop_Down |-> "drop_down", Emoji |-> "emoji"]

\* the source types tried: the table's own, other spellings of them, types
\* the table does not have, names of inherited members
SourceTypes ==
  DOMAIN typeMap \cup DOMAIN Spellings \cup {"emoji", "formula"}
    \cup DOMAIN Inherited

SourceTypeLists ==
  {<<t>> : t \in SourceTypes} \cup {<<t, u>> : t \in SourceTypes, u \in SourceTypes}

\* String.prototype.toLowerCase on a type name
lowerType(t) == IF t \in DOMAIN Spellings THEN Spellings[t] ELSE t

\* typeMap[key]: an own property, else an inherited one, else undefined
lookup(key) ==
  IF key \in DOMAIN typeMap THEN typeMap[key]
  ELSE IF key \in DOMAIN Inherited THEN Inherited[key]
  ELSE "undefined"

\* FieldMapper.mapFieldType, line 36
mapFieldType(clickupFieldType) ==
  LET found == lookup(lowerType(clickupFieldType))
  IN IF found # "undefined" THEN found ELSE "text"

InitFieldType ==
  /\ BatchIdle
  /\ BackoffIdle
  /\ RateIdle
  /\ MigrateIdle
  /\ JobsIdle
  /\ AdapterIdle
  /\ ReplicateIdle
  /\ FileSyncIdle
  /\ IdleButPure
  /\ pureArgs \in SourceTypeLists
  /\ pureResult = NoAnswer

\* mapFieldType applied to the type of each field of a list
MapFieldTypes ==
  /\ ~pureResult.set
  /\ pureResult' =
       [set |-> TRUE,
        types |-> [i \in 1..Len(pureArgs) |-> mapFieldType(pureArgs[i])]]
  /\ UNCHANGED <<pureArgs, nonPure>>

NextFieldType == MapFieldTypes

SpecFieldType == InitFieldType /\ [][NextFieldType]_vars

\* the target column types
ColumnTypes ==
  {"text", "long-text", "numbers", "date", "checkbox", "status", "tags",
   "email", "phone", "link", "people", "rating", "location"}

\* C25: mapFieldType maps every source type of its table to one target column
\* type (number and currency to numbers, drop_down to status, labels to tags,
\* users to people), whatever the case it is spelled in, and every other type
\* to text.
C25_MapFieldTypeIsTotal ==
  pureResult.set =>
    \A i \in 1..Len(pureArgs) :
      LET t == lowerType(pureArgs[i])
          r == pureResult.types[i]
      IN /\ r \in ColumnTypes
         /\ t \in {"number", "currency"} => r = "numbers"
         /\ t = "drop_down" => r = "status"
         /\ t = "labels" => r = "tags"
         /\ t = "users" => r = "people"
         /\ t \notin DOMAIN typeMap => r = "text"


\* ------------------------------------------------ duplicates in file sync
\* the attachment has the name, case ignored, and the size of an asset that
\* is on the target item
PresentOnItem(attachment) ==
  \E k \in 1..Len(itemAssets) :
    /\ toLowerCase(itemAssets[k].name) = toLowerCase(attachment.title)
    /\ itemAssets[k].file_size = attachment.size

\* the file_transfers rows of attachment i of the task
RecordsOf(i) ==
  {k \in 1..Len(transferRecords) : transferRecords[k].attachment = i}

\* C22: with skipDuplicates on, an attachment handled by file sync that is
\* already present on the target item (same name ignoring case, same size) is
\* not downloaded and has a file_transfers row with status skipped; one that
\* is not present, passes validation and is downloaded is uploaded and has a
\* row with status transferred.
C22_DuplicatesAreSkipped ==
  fileSync.skipDuplicates =>
    \A i \in 1..Len(outcomes) :
      IF PresentOnItem(syncTask.attachments[i])
      THEN /\ outcomes[i] \notin {"download failed", "upload failed", "uploaded"}
           /\ \E k \in RecordsOf(i) : transferRecords[k].status = "skipped"
      ELSE outcomes[i] \notin {"invalid", "download failed"} =>
             /\ outcomes[i] = "uploaded"
             /\ \E k \in RecordsOf(i) : transferRecords[k].status = "transferred"


\* ------------------------------------------------ failures and the job store
\* C26: a failure the replication absorbs is in the job store when the run
\* ends: after a column creation failed, the job's row carries that error.
C26_AbsorbedFailuresArePersisted ==
  (ReplicateEnded /\ repLog.columnError) =>
    replication.error_message = ColumnError


\* ----------------------------------- ListReplicator.migrateTask, subtasks
MaxTaskTries == 2   \* calls of migrateTask the batch processor makes per task

\* a task of the source list; parent 0 stands for null
Top(id) == [id |-> id, parent |-> 0]
Child(id, p) == [id |-> id, parent |-> p]

\* the lists tried, as getListTasks returns them (subtasks included)
SubtaskLists ==
  { <<Top(1)>>,
    <<Top(1), Child(2, 1)>>,
    <<Child(2, 1), Top(1)>>,
    <<Top(1), Child(2, 1), Child(3, 1)>>,
    <<Top(1), Child(2, 1), Child(3, 2)>>,
    <<Top(1), Top(3), Child(2, 1)>> }

\* the components the migration of a list with subtasks leaves alone
nonHierarchy == <<bvars, xvars, rvars, mvars, jvars, avars, pvars, fvars, svars, uvars, gvars, kvars, cvars, evars, wvars>>

\* allTasks.filter(t => t.parent === fullTask.id), line 280
childrenOfAny(list, id) ==
  LET isChild(k) == list[k].parent # 0 IN
    SelectSeq(Positions(Len(list)), isChild)

childrenOf(list, id) ==
  LET isChild(k) == list[k].parent = id IN
    SelectSeq(Positions(Len(list)), isChild)

\* the id the target service gives the next item or sub-item
nextItemId == Len(creations) + 1

\* rows of task_mappings, clickup_task_id UNIQUE
subMappingRow(task, item, parentItem) ==
  [clickup_task_id |-> task, monday_item_id |-> item,
   monday_parent_id |-> parentItem, sync_status |-> "synced"]

InitHierarchy ==
  /\ BatchIdle
  /\ BackoffIdle
  /\ RateIdle
  /\ MigrateIdle
  /\ JobsIdle
  /\ AdapterIdle
  /\ ReplicateIdle
  /\ FileSyncIdle
  /\ IdleButHierarchy
  /\ listTasks \in SubtaskLists
  /\ subtaskRun = [NoSubtaskRun EXCEPT !.pc = "call", !.cur = 1, !.tries = 1]
  /\ creations = <<>>
  /\ mappingRows = <<>>

CurrentTask == listTasks[subtaskRun.cur]

\* migrateTask, lines 235-252: createItem resolves, the mapping row is
\* inserted; with includeSubtasks the subtasks of a parent task come next
HierarchyCreateItemResolves ==
  /\ subtaskRun.pc = "call"
  /\ creations' = Append(creations,
       [kind |-> "item", task |-> CurrentTask.id, id |-> nextItemId,
        under |-> 0])
  /\ mappingRows' =
       insertMapping(mappingRows, subMappingRow(CurrentTask.id, nextItemId, 0))
  /\ subtaskRun' =
       [subtaskRun EXCEPT !.item = nextItemId,
          !.pc = IF CurrentTask.parent = 0 THEN "list" ELSE "return"]
  /\ UNCHANGED <<listTasks, nonHierarchy>>

\* createItem rejects: migrateTask throws
HierarchyCreateItemRejects ==
  /\ subtaskRun.pc = "call"
  /\ subtaskRun' = [subtaskRun EXCEPT !.pc = "threw"]
  /\ UNCHANGED <<listTasks, creations, mappingRows, nonHierarchy>>

\* lines 277-280: the list is fetched again and filtered for the children
HierarchyListResolves ==
  /\ subtaskRun.pc = "list"
  /\ LET kids == childrenOf(listTasks, CurrentTask.id) IN
       subtaskRun' =
         [subtaskRun EXCEPT !.kids = kids,
            !.pc = IF kids = <<>> THEN "return" ELSE "subtask"]
  /\ UNCHANGED <<listTasks, creations, mappingRows, nonHierarchy>>

HierarchyListRejects ==
  /\ subtaskRun.pc = "list"
  /\ subtaskRun' = [subtaskRun EXCEPT !.pc = "threw"]
  /\ UNCHANGED <<listTasks, creations, mappingRows, nonHierarchy>>

\* migrateSubtask, lines 290-323: createSubitem under the parent's item
\* resolves, the mapping row is inserted
HierarchyCreateSubitemResolves ==
  /\ subtaskRun.pc = "subtask"
  /\ LET kid == listTasks[Head(subtaskRun.kids)].id IN
       /\ creations' = Append(creations,
            [kind |-> "subitem", task |-> kid, id |-> nextItemId,
             under |-> subtaskRun.item])
       /\ mappingRows' =
            insertMapping(mappingRows,
                          subMappingRow(kid, nextItemId, subtaskRun.item))
  /\ subtaskRun' =
       [subtaskRun EXCEPT !.kids = Tail(@),
          !.pc = IF Tail(subtaskRun.kids) = <<>> THEN "return" ELSE "subtask"]
  /\ UNCHANGED <<listTasks, nonHierarchy>>

HierarchyCreateSubitemRejects ==
  /\ subtaskRun.pc = "subtask"
  /\ subtaskRun' = [subtaskRun EXCEPT !.pc = "threw"]
  /\ UNCHANGED <<listTasks, creations, mappingRows, nonHierarchy>>

\* the batch processor moves on to the next task of the list
nextTaskOf(r) ==
  [r EXCEPT !.cur = @ + 1, !.tries = 1, !.item = 0, !.kids = <<>>,
            !.pc = IF r.cur + 1 > Len(listTasks) THEN "done" ELSE "call"]

\* migrateTask returns its item (line 287)
HierarchyTaskResolved ==
  /\ subtaskRun.pc = "return"
  /\ subtaskRun' =
       nextTaskOf([subtaskRun EXCEPT !.resolved = @ \cup {CurrentTask.id}])
  /\ UNCHANGED <<listTasks, creations, mappingRows, nonHierarchy>>

\* migrateTask threw: the batch processor calls it again, or gives the task up
HierarchyTaskRejected ==
  /\ subtaskRun.pc = "threw"
  /\ subtaskRun' =
       IF subtaskRun.tries < MaxTaskTries
       THEN [subtaskRun EXCEPT !.tries = @ + 1, !.pc = "call", !.item = 0,
                               !.kids = <<>>]
       ELSE nextTaskOf(subtaskRun)
  /\ UNCHANGED <<listTasks, creations, mappingRows, nonHierarchy>>

NextHierarchy ==
  \/ HierarchyCreateItemResolves
  \/ HierarchyCreateItemRejects
  \/ HierarchyListResolves
  \/ HierarchyListRejects
  \/ HierarchyCreateSubitemResolves
  \/ HierarchyCreateSubitemRejects
  \/ HierarchyTaskResolved
  \/ HierarchyTaskRejected

SpecHierarchy == InitHierarchy /\ [][NextHierarchy]_vars

\* the parent of a task of the list (0 if it has none)
ParentOf(id) ==
  LET k == CHOOSE k \in 1..Len(listTasks) : listTasks[k].id = id
  IN listTasks[k].parent

\* Whenever migrateTask is called with includeSubtasks: every sub-item is
\* created for a direct child of a top-level task, under an item that was
\* created earlier for that child's parent; and once migrateTask has returned
\* for a top-level task, each of its direct children has a sub-item under an
\* item of that task.
SubitemsUnderEarlierParentItem ==
  /\ \A k \in 1..Len(creations) :
       creations[k].kind = "subitem" =>
         /\ ParentOf(creations[k].task) # 0
         /\ ParentOf(ParentOf(creations[k].task)) = 0
         /\ \E j \in 1..(k - 1) :
              /\ creations[j].kind = "item"
              /\ creations[j].task = ParentOf(creations[k].task)
              /\ creations[j].id = creations[k].under
  /\ \A p \in subtaskRun.resolved :
       ParentOf(p) = 0 =>
         \A c \in 1..Len(listTasks) :
           listTasks[c].parent = p =>
             \E k, j \in 1..Len(creations) :
               /\ creations[k].kind = "subitem"
               /\ creations[k].task = listTasks[c].id
               /\ creations[j].kind = "item"
               /\ creations[j].task = p
               /\ creations[k].under = creations[j].id

\* a parent with two children was migrated on the second call of migrateTask,
\* after the first call had already created a sub-item
ParentMigratedOnRetry ==
  /\ 1 \in subtaskRun.resolved
  /\ Cardinality({k \in 1..Len(creations) :
                    creations[k].kind = "subitem"}) >= 3

\* C27: a replication that migrates data (mode full or data_only, subtasks
\* included as the route's default has it) of a list in which some task is a
\* direct child of a top-level task, and whose setup did not fail, has called
\* createSubitem by the time it ends, after createItem.
C27_ChildrenBecomeSubitems ==
  ( /\ ReplicateEnded
    /\ replicator.mode \in {"full", "data_only"}
    /\ ~repLog.setupError
    /\ source.children > 0 )
  => {"createItem", "createSubitem"} \subseteq repLog.calls

\* ------------------------------------------ processParallel, pool size
\* the operations of the current batch that were started and have not settled
Unfinished == {i \in 1..Len(inProgress) : inProgress[i].st = "pending"}

\* C28: in parallel mode at most maxParallel operations of the batch are
\* unfinished at any moment, and an operation is started only in a state in
\* which fewer than maxParallel are unfinished.
C28_AtMostMaxParallelInFlight ==
  /\ [](parallel => Cardinality(Unfinished) <= maxParallel)
  /\ [][(parallel /\ Len(queue') < Len(queue))
          => Cardinality(Unfinished) < maxParallel]_vars

\* the pool is full with two unfinished operations while a third item of the
\* batch waits in the queue
C28_Witness ==
  /\ parallel
  /\ pc = "race"
  /\ maxParallel = 2
  /\ Cardinality(Unfinished) = 2
  /\ queue # <<>>

\* ------------------------------------- one RateLimiter, several callers
\* the callers of one adapter that run at the same time, as the processor of
\* processParallel does with maxParallel = 2
Callers == {1, 2}

NewCaller == [pc |-> "idle", wnow |-> 0, wakeAt |-> 0]

\* most calls the callers make together: one for each on average
SharedMaxCalls == Cardinality(Callers)

\* calls that have passed the start of waitForReset
SharedCalls ==
  Len(recorded) + Cardinality({c \in Callers : callers[c].pc # "idle"})

nonShared == <<bvars, xvars, mvars, jvars, avars, pvars, fvars, svars, uvars, gvars, hvars, cvars, evars, wvars>>

InitShared ==
  /\ BatchIdle
  /\ BackoffIdle
  /\ MigrateIdle
  /\ JobsIdle
  /\ AdapterIdle
  /\ ReplicateIdle
  /\ FileSyncIdle
  /\ IdleButShared
  /\ now = StartTime
  /\ config \in Configs
  /\ requests = <<>>
  /\ lastRequestTime = 0
  /\ rpc = "off"
  /\ wnow = 0
  /\ wakeAt = 0
  /\ probe = NoProbe
  /\ recorded = <<>>
  /\ starts = <<>>
  /\ callers = [c \in Callers |-> NewCaller]

sharedUnchanged == <<config, rpc, wnow, wakeAt, probe>>

\* time passes
SharedTick ==
  \E d \in Ticks :
    /\ now + d <= MaxTime
    /\ now' = now + d
    /\ UNCHANGED <<requests, lastRequestTime, recorded, starts, callers,
                   sharedUnchanged, nonShared>>

\* lines 47-54 for caller c, entered at time `at` with the `now` of line 30
sharedIntervalStep(c, t, at) ==
  IF intervalWait(t) > 0
    THEN callers' = [callers EXCEPT ![c].pc = "intervalSleep", ![c].wnow = t,
                                    ![c].wakeAt = at + intervalWait(t)]
    ELSE callers' = [callers EXCEPT ![c].pc = "ready", ![c].wnow = t,
                                    ![c].wakeAt = 0]

\* caller c enters makeRequest: waitForReset, lines 29-55, runs up to its
\* first await or to its return
SharedWaitForReset(c) ==
  /\ callers[c].pc = "idle"
  /\ SharedCalls < SharedMaxCalls
  /\ LET kept == filterWindow(requests, now, config.windowMs)
         waitTime == capWait(now, minOf(kept), config.windowMs)
     IN /\ requests' = kept
        /\ IF Len(kept) >= config.maxRequests /\ waitTime > 0
             THEN callers' =
                    [callers EXCEPT ![c].pc = "capSleep", ![c].wnow = now,
                                    ![c].wakeAt = now + waitTime]
             ELSE sharedIntervalStep(c, now, now)
  /\ UNCHANGED <<now, lastRequestTime, recorded, starts, sharedUnchanged,
                 nonShared>>

\* line 43 for caller c: its sleep for a free slot is over
SharedCapSleepDone(c) ==
  /\ callers[c].pc = "capSleep"
  /\ now >= callers[c].wakeAt
  /\ sharedIntervalStep(c, callers[c].wnow, now)
  /\ UNCHANGED <<now, requests, lastRequestTime, recorded, starts,
                 sharedUnchanged, nonShared>>

\* line 52 for caller c: its sleep for the minimum interval is over
SharedIntervalSleepDone(c) ==
  /\ callers[c].pc = "intervalSleep"
  /\ now >= callers[c].wakeAt
  /\ callers' = [callers EXCEPT ![c].pc = "ready", ![c].wakeAt = 0]
  /\ UNCHANGED <<now, requests, lastRequestTime, recorded, starts,
                 sharedUnchanged, nonShared>>

\* waitForReset has returned to caller c, which starts its remote call
SharedStartCall(c) ==
  /\ callers[c].pc = "ready"
  /\ callers' = [callers EXCEPT ![c].pc = "calling"]
  /\ starts' = Append(starts, now)
  /\ UNCHANGED <<now, requests, lastRequestTime, recorded, sharedUnchanged,
                 nonShared>>

\* the remote call of caller c is over: recordRequest, lines 57-60
SharedRecordRequest(c) ==
  /\ callers[c].pc = "calling"
  /\ requests' = Append(requests, now)
  /\ lastRequestTime' = now
  /\ recorded' = Append(recorded, now)
  /\ callers' = [callers EXCEPT ![c].pc = "idle"]
  /\ UNCHANGED <<now, starts, sharedUnchanged, nonShared>>

NextShared ==
  \/ SharedTick
  \/ \E c \in Callers :
       \/ SharedWaitForReset(c)
       \/ SharedCapSleepDone(c)
       \/ SharedIntervalSleepDone(c)
       \/ SharedStartCall(c)
       \/ SharedRecordRequest(c)

SpecShared == InitShared /\ [][NextShared]_vars

\* C29: with several callers on one RateLimiter, each doing waitForReset,
\* its remote call, then recordRequest, no window of windowMs holds more than
\* maxRequests recorded requests and two remote calls never start less than
\* minInterval apart.
C29_SharedWindowAndSpacing ==
  /\ \A k \in 1..Len(recorded) :
       Cardinality({j \in 1..Len(recorded) :
                      /\ recorded[j] >= recorded[k]
                      /\ recorded[j] < recorded[k] + config.windowMs})
         <= config.maxRequests
  /\ \A i, j \in 1..Len(starts) :
       i # j => (starts[j] - starts[i] >= config.minInterval
                 \/ starts[i] - starts[j] >= config.minInterval)

\* ------------------------------------------- MondayAPI, complexity budget
\* C30: the adapter issues no request at a time at which the cost charged to
\* it in the running minute is above 90% of the per-minute budget and the
\* reset the service announced has not come yet.
C30_NoRequestAboveBudget ==
  \A k \in 1..Len(issues) :
    ~(nearBudget(issues[k].spent) /\ issues[k].at < issues[k].resetAt)

\* ------------------------------------------- replicate, board creation
\* the positions of the remote calls named c in the run so far
CallsOf(c) == {k \in 1..Len(repLog.trace) : repLog.trace[k] = c}

CreationCalls == {"createColumn", "createItem", "createSubitem", "createUpdate"}

\* C31: in every mode createBoard is called at most once, after getList and
\* before any column, item, sub-item or comment creation call, and exactly
\* once in a run that ends with its list analysis done; in data_only mode
\* getCustomFields is not called and no column is created.
C31_OneBoardBeforeAnyCreation ==
  /\ Cardinality(CallsOf("createBoard")) <= 1
  /\ \A k \in CallsOf("createBoard") : \E j \in CallsOf("getList") : j < k
  /\ \A k \in 1..Len(repLog.trace) :
       repLog.trace[k] \in CreationCalls =>
         \E j \in CallsOf("createBoard") : j < k
  /\ (ReplicateEnded /\ replication.error_message # "list analysis failed")
       => Cardinality(CallsOf("createBoard")) = 1
  /\ replicator.mode = "data_only" =>
       /\ "getCustomFields" \notin repLog.calls
       /\ "createColumn" \notin repLog.calls
       /\ board.columns = <<>>

\* a data_only run on a list with custom fields has created its board and
\* ended
C31_Witness ==
  /\ ReplicateEnded
  /\ replicator.mode = "data_only"
  /\ source.fields > 0
  /\ board.created
  /\ repLog.trace = <<"getList", "createBoard">>

\* --------------------------- FieldMapper.getTransformationRule, numbers
\* values of the source: null, undefined, a number, a string of characters;
\* NaN is what parseFloat yields when it finds no number
JsNull == [t |-> "null", n |-> 0, s |-> <<>>]
JsUndefined == [t |-> "undefined", n |-> 0, s |-> <<>>]
JsNaN == [t |-> "NaN", n |-> 0, s |-> <<>>]
JsNumber(n) == [t |-> "number", n |-> n, s |-> <<>>]
JsString(s) == [t |-> "string", n |-> 0, s |-> s]

\* the decimal digits among the characters tried
DigitValue == [c \in {"0", "1", "2"} |-> IF c = "0" THEN 0 ELSE IF c = "1" THEN 1 ELSE 2]

\* the field values tried: none, numbers, strings of digits, text, a number
\* followed by text, the empty string
FieldValues ==
  {JsNull, JsUndefined, JsNumber(0), JsNumber(5), JsString(<<>>),
   JsString(<<"0">>), JsString(<<"1", "2">>), JsString(<<"a">>),
   JsString(<<"1", "a">>)}

FieldValueLists ==
  {<<v>> : v \in FieldValues} \cup {<<v, w>> : v \in FieldValues, w \in FieldValues}

NumericTypes == {"number", "currency"}

\* the value of a string of digits
RECURSIVE digitsValue(_)
digitsValue(ds) ==
  IF ds = <<>> THEN 0
  ELSE 10 * digitsValue(SubSeq(ds, 1, Len(ds) - 1)) + DigitValue[ds[Len(ds)]]

\* the longest prefix of digits of a string
RECURSIVE digitPrefix(_)
digitPrefix(cs) ==
  IF cs = <<>> \/ Head(cs) \notin DOMAIN DigitValue THEN <<>>
  ELSE <<Head(cs)>> \o digitPrefix(Tail(cs))

\* parseFloat: the number at the front of the value as a string, else NaN
parseFloat(v) ==
  IF v.t = "number" THEN v
  ELSE IF v.t = "string" /\ digitPrefix(v.s) # <<>>
    THEN JsNumber(digitsValue(digitPrefix(v.s)))
  ELSE JsNaN

\* what counts as true in a condition
truthy(v) ==
  /\ v.t \notin {"null", "undefined", "NaN"}
  /\ v.t = "number" => v.n # 0
  /\ v.t = "string" => v.s # <<>>

\* parseFloat(value) || 0
parsedOrZero(v) == IF truthy(parseFloat(v)) THEN parseFloat(v) ELSE JsNumber(0)

\* the rule for 'number', lines 112-115
numberRule(v) ==
  IF v.t \in {"null", "undefined"} THEN JsNull ELSE parsedOrZero(v)

\* the rule for 'currency', lines 117-120
currencyRule(v) == IF ~truthy(v) THEN JsNull ELSE parsedOrZero(v)

\* getTransformationRule(fieldType) applied to a value
transform(fieldType, v) ==
  IF fieldType = "number" THEN numberRule(v) ELSE currencyRule(v)

InitTransform ==
  /\ BatchIdle
  /\ BackoffIdle
  /\ RateIdle
  /\ MigrateIdle
  /\ JobsIdle
  /\ AdapterIdle
  /\ ReplicateIdle
  /\ FileSyncIdle
  /\ IdleButPure
  /\ pureArgs \in [fieldType : NumericTypes, values : FieldValueLists]
  /\ pureResult = NoAnswer

\* the rule of the field's type applied to each value of the field
TransformValues ==
  /\ ~pureResult.set
  /\ pureResult' =
       [set |-> TRUE,
        values |-> [i \in 1..Len(pureArgs.values) |->
                      transform(pureArgs.fieldType, pureArgs.values[i])]]
  /\ UNCHANGED <<pureArgs, nonPure>>

NextTransform == TransformValues

SpecTransform == InitTransform /\ [][NextTransform]_vars

\* a value is numeric when it is a number or a non-empty string of digits
IsNumeric(v) ==
  \/ v.t = "number"
  \/ /\ v.t = "string"
     /\ v.s # <<>>
     /\ \A k \in 1..Len(v.s) : v.s[k] \in DOMAIN DigitValue

NumericValue(v) == IF v.t = "number" THEN v.n ELSE digitsValue(v.s)

\* C32: the rules for number and currency fields return the parsed number for
\* a numeric value and null for every value that is not numeric (null,
\* undefined, text).
C32_NumberOrNull ==
  pureResult.set =>
    \A i \in 1..Len(pureArgs.values) :
      LET v == pureArgs.values[i]
          r == pureResult.values[i]
      IN IF IsNumeric(v) THEN r = JsNumber(NumericValue(v)) ELSE r = JsNull

\* ------------------------------------------- processBatch, termination
\* C33: processBatch eventually returns, for every input list, batch size and
\* maxRetries tried, sequential or parallel, when every invocation of the
\* per-item operation settles.
C33_ProcessBatchReturns == <>(pc = "done")

\* in sequential mode processBatch eventually returns
SequentialReturns == ~parallel => <>(pc = "done")

\* --------------------------------------------- processBatch, the counters
\* C34: when processBatch returns, successful + failed + skipped is the
\* number of input items, also when the progress callback threw after the
\* results of a batch had been counted.
C34_CountersSumToInput ==
  pc = "done" => successful + failed + skipped = Len(tasks)

\* ------------------------------------------ migrateTask, items per task
\* the items and sub-items created for a source task
CreatedFor(id) == {k \in 1..Len(creations) : creations[k].task = id}

ExecIds == {1, 2}

NewExec == [pc |-> "new", fnCalls |-> 0, failures |-> 0]

\* an execute call is followed until its operation has been invoked this often
OverlapCallCap == MondayMaxAttempts + 1

nonOverlap == <<bvars, rvars, mvars, jvars, avars, pvars, fvars, svars, uvars, gvars, hvars, kvars, cvars, wvars>>

InitOverlap ==
  /\ BatchIdle
  /\ RateIdle
  /\ MigrateIdle
  /\ JobsIdle
  /\ AdapterIdle
  /\ ReplicateIdle
  /\ FileSyncIdle
  /\ IdleButOverlap
  /\ maxAttempts = MondayMaxAttempts
  /\ retryableErrors = MondayRetryable
  /\ attempt = 0
  /\ xpc = "idle"
  /\ returned = "none"
  /\ thrown = NoThrown
  /\ fnCalls = 0
  /\ fnErrors = <<>>
  /\ slept = <<>>
  /\ execs = [c \in ExecIds |-> NewExec]

overlapUnchanged ==
  <<maxAttempts, retryableErrors, xpc, returned, thrown, fnCalls, fnErrors,
    slept>>

\* execute, lines 93-98: the shared counter is set to 0 and fn is invoked
OverlapExecute(c) ==
  /\ execs[c].pc = "new"
  /\ attempt' = 0
  /\ execs' = [execs EXCEPT ![c].pc = "call", ![c].fnCalls = 1]
  /\ UNCHANGED <<overlapUnchanged, nonOverlap>>

\* lines 98-100: fn resolves, the shared counter is set to 0
OverlapFnResolves(c) ==
  /\ execs[c].pc = "call"
  /\ attempt' = 0
  /\ execs' = [execs EXCEPT ![c].pc = "returned"]
  /\ UNCHANGED <<overlapUnchanged, nonOverlap>>

\* lines 101-112: fn rejects with an error the filter does not let through
OverlapFnRejectsNotRetryable(c) ==
  /\ execs[c].pc = "call"
  /\ \E err \in MondayErrors :
       /\ filterActive(retryableErrors)
       /\ ~isRetryable(err, retryableErrors)
  /\ attempt' = attempt + 1
  /\ execs' = [execs EXCEPT ![c].pc = "rethrown", ![c].failures = @ + 1]
  /\ UNCHANGED <<overlapUnchanged, nonOverlap>>

\* lines 101-126: fn rejects with a retryable error; the shared counter
\* decides between the terminal error and a sleep
OverlapFnRejects(c) ==
  /\ execs[c].pc = "call"
  /\ \E err \in MondayErrors :
       filterActive(retryableErrors) => isRetryable(err, retryableErrors)
  /\ attempt' = attempt + 1
  /\ execs' =
       [execs EXCEPT ![c].failures = @ + 1,
          ![c].pc = IF attemptsExhausted(attempt + 1, maxAttempts)
                    THEN "exhausted" ELSE "sleep"]
  /\ UNCHANGED <<overlapUnchanged, nonOverlap>>

\* line 125 and 97-98: the sleep is over, fn is invoked again
OverlapSleepDone(c) ==
  /\ execs[c].pc = "sleep"
  /\ execs[c].fnCalls < OverlapCallCap
  /\ execs' = [execs EXCEPT ![c].pc = "call", ![c].fnCalls = @ + 1]
  /\ UNCHANGED <<attempt, overlapUnchanged, nonOverlap>>

NextOverlap ==
  \E c \in ExecIds :
    \/ OverlapExecute(c)
    \/ OverlapFnResolves(c)
    \/ OverlapFnRejectsNotRetryable(c)
    \/ OverlapFnRejects(c)
    \/ OverlapSleepDone(c)

SpecOverlap == InitOverlap /\ [][NextOverlap]_vars

\* C36: when two execute calls on one ExponentialBackoff overlap, each invokes
\* its own operation at most maxAttempts times and throws the terminal error
\* only after maxAttempts failures of its own operation.
C36_OverlappingCallsCountTheirOwn ==
  \A c \in ExecIds :
    /\ execs[c].fnCalls <= maxAttempts
    /\ execs[c].pc = "exhausted" => execs[c].failures = maxAttempts

\* ------------------------------------------ syncFiles, the job's status
\* C37: when syncFiles has returned, the job row has status completed or
\* failed, also when the fetch of the tasks failed and when the last task
\* failed.
C37_ReturnedJobIsSettled ==
  sync.pc = "returned" => syncJob.status \in {"completed", "failed"}

\* C38: the job row has status completed only if every task was handled
\* without error, that is only if the result of syncFiles has success = true.
C38_CompletedMeansNoError ==
  syncJob.status = "completed" =>
    /\ syncResult.success
    /\ syncResult.errors = <<>>

\* ------------------------- replicate, the migrated_tasks counter of the row
\* numbers of tasks getListTasks returns: none, one batch, and two, three
\* and four batches with a last batch that is not full
ProgressTaskCounts == {0, 1, 11, 21, 31}

nonProgress == <<bvars, xvars, rvars, mvars, jvars, avars, pvars, fvars, svars, uvars, gvars, hvars, kvars, cvars, evars>>

\* replicate, lines 88-91: the status is migrating and getListTasks has
\* resolved; the row still has the counters of the schema
InitProgress ==
  /\ BatchIdle
  /\ BackoffIdle
  /\ RateIdle
  /\ MigrateIdle
  /\ JobsIdle
  /\ AdapterIdle
  /\ ReplicateIdle
  /\ FileSyncIdle
  /\ IdleButProgress
  /\ \E n \in ProgressTaskCounts :
       progressRun = [pc |-> "fetched", tasks |-> [i \in 1..n |-> i],
                      batches |-> <<>>, index |-> 0]
  /\ progressWrites = {}
  /\ replicationRow =
       [migrated_tasks |-> 0, total_tasks |-> 0, status |-> "migrating"]

\* ListReplicator.updateProgress, lines 440-450: the columns one call writes
progressUpdate(processed, total) ==
  [migrated_tasks |-> processed, total_tasks |-> total]

\* the row after an update of the two counters has reached the store
applyProgress(row, w) ==
  [row EXCEPT !.migrated_tasks = w.migrated_tasks,
              !.total_tasks = w.total_tasks]

\* replicate, line 94, awaited; then migrateTasks, lines 189-193, and
\* processBatch, line 54: the batches of 10 tasks
ProgressSetTotal ==
  /\ progressRun.pc = "fetched"
  /\ replicationRow' =
       applyProgress(replicationRow,
                     progressUpdate(0, Len(progressRun.tasks)))
  /\ progressRun' =
       [progressRun EXCEPT
          !.pc = "loop",
          !.batches = createBatches(progressRun.tasks, MigrateBatchSize)]
  /\ UNCHANGED <<progressWrites, nonProgress>>

\* processBatch, lines 71-105, with the callback of migrateTasks, lines
\* 201-203: a batch has been processed; onProgress is called and not awaited,
\* so its update of the row is in flight when the loop goes on
ProgressBatchDone ==
  /\ progressRun.pc = "loop"
  /\ progressRun.index < Len(progressRun.batches)
  /\ progressWrites' =
       progressWrites \cup
         {progressUpdate(actualProcessed(progressRun.index, MigrateBatchSize,
                                         Len(progressRun.tasks)),
                         Len(progressRun.tasks))}
  /\ progressRun' = [progressRun EXCEPT !.index = @ + 1]
  /\ UNCHANGED <<replicationRow, nonProgress>>

\* an update issued by onProgress reaches the store
ProgressWriteLands ==
  \E w \in progressWrites :
    /\ replicationRow' = applyProgress(replicationRow, w)
    /\ progressWrites' = progressWrites \ {w}
    /\ UNCHANGED <<progressRun, nonProgress>>

\* processBatch, lines 113-119, migrateTasks and replicate, lines 97-109:
\* the loop is over and replicate issues the update of the status
ProgressBatchesReturn ==
  /\ progressRun.pc = "loop"
  /\ progressRun.index >= Len(progressRun.batches)
  /\ progressRun' = [progressRun EXCEPT !.pc = "completing"]
  /\ UNCHANGED <<progressWrites, replicationRow, nonProgress>>

\* updateReplicationStatus('completed'), lines 406-424: the status reaches
\* the store; the update touches no counter
ProgressCompletedWritten ==
  /\ progressRun.pc = "completing"
  /\ replicationRow' = [replicationRow EXCEPT !.status = "completed"]
  /\ progressRun' = [progressRun EXCEPT !.pc = "returned"]
  /\ UNCHANGED <<progressWrites, nonProgress>>

NextProgress ==
  \/ ProgressSetTotal
  \/ ProgressBatchDone
  \/ ProgressWriteLands
  \/ ProgressBatchesReturn
  \/ ProgressCompletedWritten

SpecProgress == InitProgress /\ [][NextProgress]_vars

\* the counter does not go down in a step
CounterNeverDecreases ==
  [][replicationRow'.migrated_tasks >= replicationRow.migrated_tasks]_vars

\* once the total is written the counter is at most the total
CounterAtMostTotal ==
  replicationRow.migrated_tasks <= replicationRow.total_tasks

\* a row with status completed has counted every task
CompletedWithFullCounter ==
  replicationRow.status = "completed" =>
    replicationRow.migrated_tasks = replicationRow.total_tasks

====
